---- MODULE Spec2Model ----
(***************************************************************************)
(* A model of the social-media microservices: the post service with its    *)
(* read-through cache and event publishing, the rate limiters, the API     *)
(* gateway pipeline, and the event consumers of the media and search       *)
(* services.  Each subsystem has its own specification over the shared     *)
(* variables; a specification leaves the other subsystems' variables       *)
(* unchanged.                                                              *)
(***************************************************************************)
EXTENDS Integers, Sequences, FiniteSets, TLC

VARIABLES
    posts,       \* post service: the Post collection (set of documents)
    nextId,      \* post service: next _id handed out by new Post(...)
    cache,       \* post service: the Redis cache, a function key -> entry
    published,   \* post service: events handed to the broker by publishEvent
    req,         \* post service: the in-flight requests, one record per slot
    started,     \* post service: number of requests started so far
    storeVer,    \* history: number of writes applied to the Post collection
    ackedVer,    \* history: newest write whose success response was sent
    lactive,     \* limiters: the limiter instances that receive traffic
    lcount,      \* limiters: the Redis counters, keyed by <<key prefix, identity>>
    lcall,       \* limiters: the consume call each replica has in flight
    lrolls,      \* limiters: number of counters that have expired so far
    ladmitted,   \* history: requests admitted per <<limiter, identity>> this window
    lrejected,   \* history: <<limiter, identity, window>> rejections, the window
                 \* being "now" or, once the counter has expired, "before"
    greq,        \* gateway: the request passing through the middleware chain
    genv,        \* gateway: process.env.NODE_ENV of the gateway process
    mrecords,    \* media service: ids that have a Media metadata record
    mblobs,      \* media service: ids whose blob exists in the external store
    mqueue,      \* media service: post.deleted messages not yet acknowledged
    mwork,       \* media service: the running handlePostDeleted execution
    mup,         \* media service: the uploadMedia request in progress
    sindex,      \* search service: the Search collection, postId -> documents
    spending,    \* search service: events delivered but not yet handled
    sorder,      \* history: the events handled so far, in handling order
    sinit,       \* history: the index before any event was handled
    soutcome,    \* history: how each handler run ended, parallel to sorder
    sredelivered,\* search service: messages the broker has delivered again
    scache,      \* search service: the Redis cache of query results
    sq,          \* search service: the search request in progress
    itokens,     \* identity service: the RefreshToken collection
    inext,       \* identity service: the next refresh token to be generated
    iexpired,    \* identity service: tokens whose expiresAt has passed
    icall,       \* identity service: the calls in progress, one per slot
    ihist,       \* history: tokens used and issued by refreshes, call counts
    clock,       \* cache expiry: seconds since the start
    xcache,      \* cache expiry: the Redis entries with their expiry times
    xstore,      \* cache expiry: per store, the times of its mutations
    xread,       \* cache expiry: the cached reads in progress, one per slot
    xwrite,      \* cache expiry: the createPost or deletePost in progress
    preq,        \* post service: the request passing through its middleware chain
    pserved,     \* post service: number of requests received so far
    boot,        \* search / media service: where each process is in startServer
    wreq,        \* services: the request passing through a limiter middleware
    iusers       \* identity service: the User collection

postVars == <<posts, nextId, cache, published, req, started, storeVer, ackedVer>>

limVars == <<lactive, lcount, lcall, lrolls, ladmitted, lrejected>>

gwVars == <<greq, genv>>

mediaVars == <<mrecords, mblobs, mqueue, mwork, mup>>

searchVars == <<sindex, spending, sorder, sinit, soutcome, sredelivered, scache, sq>>

identVars == <<itokens, inext, iexpired, icall, ihist>>

expVars == <<clock, xcache, xstore, xread, xwrite>>

chainVars == <<preq, pserved>>

bootVars == <<boot>>

wareVars == <<wreq>>

regVars == <<iusers>>

vars == <<postVars, limVars, gwVars, mediaVars, searchVars, identVars, expVars, chainVars,
          bootVars, wareVars, regVars>>

\* what the actions of one subsystem leave alone
notPost == <<limVars, gwVars, mediaVars, searchVars, identVars, expVars,
    chainVars,
    bootVars, wareVars, regVars>>

notLimiter == <<postVars, gwVars, mediaVars, searchVars, identVars, expVars,
    chainVars,
    bootVars, wareVars, regVars>>

notGateway == <<postVars, lactive, lcall, lrolls, lrejected, genv, mediaVars,
               searchVars, identVars, expVars,
    chainVars,
    bootVars, wareVars, regVars>>

notMedia == <<postVars, limVars, gwVars, searchVars, identVars, expVars,
    chainVars,
    bootVars, wareVars, regVars>>

notSearch == <<postVars, limVars, gwVars, mediaVars, identVars, expVars,
    chainVars,
    bootVars, wareVars, regVars>>

notIdentity == <<postVars, limVars, gwVars, mediaVars, searchVars, expVars,
    chainVars,
    bootVars, wareVars, regVars>>

notExpiry == <<postVars, limVars, gwVars, mediaVars, searchVars, identVars,
    chainVars,
    bootVars, wareVars, regVars>>

notChainOrPost == <<lactive, lcall, lrolls, lrejected, gwVars, mediaVars,
    searchVars, identVars, expVars,
    bootVars, wareVars, regVars>>

notChain == <<postVars, notChainOrPost>>

notBoot == <<postVars, limVars, gwVars, mediaVars, searchVars, identVars, expVars,
    chainVars, wareVars, regVars>>

notWare == <<postVars, lactive, lcall, lrolls, lrejected, gwVars, mediaVars,
    searchVars, identVars, expVars, chainVars, bootVars, regVars>>

notRegister == <<postVars, limVars, gwVars, mediaVars, searchVars, iexpired,
    expVars, chainVars, bootVars, wareVars>>

----------------------------------------------------------------------------
(* Bounds of the model *)

MaxPosts == 2
NumSlots == 2
MaxRequests == 3

Slots == 1..NumSlots
PostIds == 1..MaxPosts
Users == {"u1", "u2"}
\* page values a client sends; line 133 defaults a missing page to 1
Pages == {1, 2}

\* limit values a client sends; line 136 defaults a missing limit to 10
DefaultLimit == 10
Limits == {1, DefaultLimit}

\* mediaIds a client attaches to a post (line 75 defaults to the empty array)
MediaChoices == {<<>>, <<1, 2>>}

\* the content of a new post: req.body.content
PostContents == {"hello"}

----------------------------------------------------------------------------
(* Cache keys: <<namespace, a, b>> stands for the Redis key string *)

PostKey(id) == <<"post", id, 0>>

ListKey(page, limit) == <<"posts", page, limit>>

\* getPost passes the (null) result of the cache lookup as the key of SETEX;
\* ioredis sends a null argument as the empty string
NullLookupKey == <<"", 0, 0>>

\* KEYS "posts:*"
MatchesListPattern(k) == k[1] = "posts"

EmptyCache == [x \in {} |-> 0]

CacheSet(c, k, e) == [x \in (DOMAIN c) \cup {k} |-> IF x = k THEN e ELSE c[x]]

CacheDel(c, ks) == [x \in (DOMAIN c) \ ks |-> c[x]]

----------------------------------------------------------------------------
(* Response bodies *)

Body(shape, ps, page, totalPages, total, message) ==
    [shape |-> shape, posts |-> ps, currentpage |-> page,
     totalPages |-> totalPages, totalPost |-> total, message |-> message]

NoBody == Body("none", <<>>, 0, 0, 0, "")

Message(m) == Body("message", <<>>, 0, 0, 0, m)

----------------------------------------------------------------------------
(* Post.find({}).sort({createdAt: -1}).skip(startIndex).limit(limit) *)

Max(a, b) == IF a >= b THEN a ELSE b

Min(a, b) == IF a <= b THEN a ELSE b

MaxOf(S) == CHOOSE x \in S : \A y \in S : y <= x

RECURSIVE SortedDesc(_)
SortedDesc(S) == IF S = {} THEN <<>>
                 ELSE <<MaxOf(S)>> \o SortedDesc(S \ {MaxOf(S)})

PostIdsIn(ps) == {p.id : p \in ps}

FindPage(ps, page, limit) ==
    LET all == SortedDesc(PostIdsIn(ps))
        startIndex == (page - 1) * limit
    IN  SubSeq(all, startIndex + 1, Min(Len(all), startIndex + limit))

\* Math.ceil(totalNoOfPost / limit)
TotalPages(total, limit) == (total + limit - 1) \div limit

----------------------------------------------------------------------------
(* Requests of the post service *)

Idle == [op |-> "none", pc |-> "idle", user |-> "", id |-> 0, page |-> 0,
         limit |-> 0, media |-> <<>>, content |-> "", valid |-> TRUE,
         found |-> <<>>, total |-> 0, keys |-> {},
         status |-> 0, body |-> NoBody, fromCache |-> FALSE,
         \* history fields
         startAcked |-> 0, myVer |-> 0, findVer |-> 0, servedVer |-> 0,
         scanned |-> {}, deleted |-> {}, deletedSingle |-> {}, pubFailed |-> FALSE,
         trace |-> <<>>]

Free(r) == req[r].pc \in {"idle", "done"}

\* a new request takes the lowest free slot
CanStart(r) == /\ Free(r)
               /\ \A q \in Slots : q < r => ~Free(q)
               /\ started < MaxRequests

\* the handler's local variables, gone once it has returned
Locals == {"found", "total", "keys", "media", "content"}

Step(r, label, changes) ==
    LET done == "pc" \in DOMAIN changes /\ changes["pc"] = "done"
    IN  [x \in DOMAIN req[r] |->
            IF x \in DOMAIN changes THEN changes[x]
            ELSE IF x = "trace" THEN Append(req[r].trace, label)
            ELSE IF done /\ x \in Locals THEN Idle[x]
            ELSE req[r][x]]

Respond(r, status, body) ==
    Step(r, "respond", [pc |-> "done", status |-> status, body |-> body])

PostInit ==
        /\ posts = {}
        /\ nextId = 1
        /\ cache = EmptyCache
        /\ published = {}
        /\ req = [r \in Slots |-> Idle]
        /\ started = 0
        /\ storeVer = 0
        /\ ackedVer = 0

----------------------------------------------------------------------------
(* Domain events handed to the broker *)

\* the payload of post.deleted: {postId, userId, mediaIds}
Event(type, postId, userId, mediaIds) ==
    [type |-> type, postId |-> postId, userId |-> userId, mediaIds |-> mediaIds]

\* the payload of post.created: {postId, userId, content, createdAt}
CreatedEvent(postId, userId, content, createdAt) ==
    [type |-> "post.created", postId |-> postId, userId |-> userId,
     content |-> content, createdAt |-> createdAt]

\* publishEvent(routingKey, message): the broker client either accepts the
\* message or fails fast (rejects) when the broker is unavailable
PublishOutcomes == {"ok", "fail"}

\* an awaited Redis or MongoDB command either settles or rejects
CommandOutcomes == {"ok", "fail"}

\* the message each handler's catch (e) answers with
CatchMessage(op) ==
    IF op = "createPost" THEN "Error at creating post"
    ELSE IF op = "deletePost" THEN "Error at Deleting post"
    ELSE "Error at fetching post"

\* catch (e): res.status(500).json({success: false, message})
Caught(r, label) ==
    Step(r, label, [pc |-> "done", status |-> 500,
                    body |-> Message(CatchMessage(req[r].op))])

----------------------------------------------------------------------------
(* invalidatePostCache(req, postId), one step per awaited Redis command *)

\* await req.redisClient.del(`post:${postId}`)
InvalidateDelSingle(r) ==
    /\ req[r].pc = "delSingle"
    /\ \E outcome \in CommandOutcomes :
         IF outcome = "ok"
         THEN /\ cache' = CacheDel(cache, {PostKey(req[r].id)})
              /\ req' = [req EXCEPT ![r] =
                           Step(r, "delSingle",
                                [deletedSingle |-> {PostKey(req[r].id)},
                                 pc |-> "keys"])]
         ELSE /\ cache' = cache
              /\ req' = [req EXCEPT ![r] = Caught(r, "delSingleFailed")]
    /\ UNCHANGED <<posts, nextId, published, started, storeVer, ackedVer, notPost>>

\* a scan that only finds the first page of each listing
ListKeysOfFirstPage(c) == {k \in DOMAIN c : MatchesListPattern(k) /\ k[2] = 1}

\* const keys = await req.redisClient.keys("posts:*")
ListKeysOf(c) == {k \in DOMAIN c : MatchesListPattern(k)}

InvalidateKeys(r) ==
    /\ req[r].pc = "keys"
    /\ \E outcome \in CommandOutcomes :
         IF outcome = "ok"
         THEN LET ks == ListKeysOf(cache)
              IN  req' = [req EXCEPT ![r] =
                            Step(r, "keys",
                                 [keys |-> ks,
                                  scanned |-> {k \in DOMAIN cache : k[1] = "posts"},
                                  pc |-> IF Cardinality(ks) > 0 THEN "delKeys"
                                         ELSE "respond"])]
         ELSE req' = [req EXCEPT ![r] = Caught(r, "keysFailed")]
    /\ UNCHANGED <<posts, nextId, cache, published, started, storeVer, ackedVer, notPost>>

\* if (keys.length) await req.redisClient.del(keys)
InvalidateDelKeys(r) ==
    /\ req[r].pc = "delKeys"
    /\ \E outcome \in CommandOutcomes :
         IF outcome = "ok"
         THEN /\ cache' = CacheDel(cache, req[r].keys)
              /\ req' = [req EXCEPT ![r] =
                           Step(r, "delKeys",
                                [deleted |-> req[r].keys, pc |-> "respond"])]
         ELSE /\ cache' = cache
              /\ req' = [req EXCEPT ![r] = Caught(r, "delKeysFailed")]
    /\ UNCHANGED <<posts, nextId, published, started, storeVer, ackedVer, notPost>>

----------------------------------------------------------------------------
(* createPost *)

\* the synchronous prefix: validateCreatePost(req.body), new Post({...}),
\* for the user of req.user.userId
CreatePostBegin(r, u) ==
    /\ \E valid \in BOOLEAN, m \in MediaChoices, c \in PostContents :
         IF valid
         THEN /\ nextId <= MaxPosts
              /\ req' = [req EXCEPT ![r] =
                           [Idle EXCEPT !.op = "createPost", !.pc = "save",
                                        !.user = u, !.media = m, !.id = nextId,
                                        !.content = c,
                                        !.startAcked = ackedVer,
                                        !.trace = <<"validate">>]]
              /\ nextId' = nextId + 1
         ELSE /\ req' = [req EXCEPT ![r] =
                           [Idle EXCEPT !.op = "createPost", !.pc = "done",
                                        !.user = u, !.valid = FALSE,
                                        !.status = 400,
                                        !.body = Message("validation error"),
                                        !.startAcked = ackedVer,
                                        !.trace = <<"validate", "respond">>]]
              /\ nextId' = nextId
    /\ started' = started + 1

\* a createPost request reaches the controller
CreatePostStart(r) ==
    /\ CanStart(r)
    /\ \E u \in Users : CreatePostBegin(r, u)
    /\ UNCHANGED <<posts, cache, published, storeVer, ackedVer, notPost>>

\* await newlyCreatedPost.save()
CreatePostSave(r) ==
    /\ req[r].op = "createPost" /\ req[r].pc = "save"
    /\ \/ /\ posts' = posts \cup {[id |-> req[r].id, user |-> req[r].user,
                                    mediaIds |-> req[r].media,
                                    content |-> req[r].content,
                                    createdAt |-> req[r].id]}
          /\ storeVer' = storeVer + 1
          /\ req' = [req EXCEPT ![r] =
                       Step(r, "storeWrite", [myVer |-> storeVer + 1, pc |-> "publish"])]
       \/ /\ req' = [req EXCEPT ![r] = Caught(r, "saveFailed")]
          /\ UNCHANGED <<posts, storeVer>>
    /\ UNCHANGED <<nextId, cache, published, started, ackedVer, notPost>>

\* await publishEvent("post.created", {...}); a rejection lands in catch (e)
CreatePostPublish(r) ==
    /\ req[r].op = "createPost" /\ req[r].pc = "publish"
    /\ \E outcome \in PublishOutcomes :
         IF outcome = "ok"
         THEN /\ published' = published \cup
                     {CreatedEvent(req[r].id, req[r].user, req[r].content,
                                   req[r].id)}
              /\ req' = [req EXCEPT ![r] = Step(r, "publish", [pc |-> "delSingle"])]
         ELSE /\ published' = published
              /\ req' = [req EXCEPT ![r] =
                           Step(r, "publishFailed",
                                [pc |-> "done", status |-> 500, pubFailed |-> TRUE,
                                 body |-> Message("Error at creating post")])]
    /\ UNCHANGED <<posts, nextId, cache, started, storeVer, ackedVer, notPost>>

\* res.status(201).json({success: true, message: 'Post created successfully'})
CreatePostRespond(r) ==
    /\ req[r].op = "createPost" /\ req[r].pc = "respond"
    /\ req' = [req EXCEPT ![r] = Respond(r, 201, Message("Post created successfully"))]
    /\ ackedVer' = Max(ackedVer, req[r].myVer)
    /\ UNCHANGED <<posts, nextId, cache, published, started, storeVer, notPost>>

----------------------------------------------------------------------------
(* deletePost *)

\* deletePost is entered with req.params.id, for the user of req.user.userId
DeletePostBegin(r, u) ==
    /\ \E id \in PostIds :
         req' = [req EXCEPT ![r] =
                   [Idle EXCEPT !.op = "deletePost", !.pc = "findOneAndDelete",
                                !.user = u, !.id = id, !.startAcked = ackedVer]]
    /\ started' = started + 1

DeletePostStart(r) ==
    /\ CanStart(r)
    /\ \E u \in Users : DeletePostBegin(r, u)
    /\ UNCHANGED <<posts, nextId, cache, published, storeVer, ackedVer, notPost>>

\* a lookup by id alone, whoever the author is
AnyPostWithId(ps, id, user) == {p \in ps : p.id = id}

\* Post.findOneAndDelete({_id: req.params.id, user: req.user.userId})
OwnedPost(ps, id, user) == {p \in ps : p.id = id /\ p.user = user}

\* a deletePost that goes on to publish whether a post was removed or not
PublishWithoutRemoval(r) ==
    /\ req[r].op = "deletePost" /\ req[r].pc = "findOneAndDelete"
    /\ LET hit == OwnedPost(posts, req[r].id, req[r].user)
       IN  /\ posts' = posts \ hit
           /\ storeVer' = IF hit = {} THEN storeVer ELSE storeVer + 1
           /\ req' = [req EXCEPT ![r] =
                        IF hit = {}
                        THEN Step(r, "notFound", [pc |-> "publish"])
                        ELSE Step(r, "storeWrite",
                                  [myVer |-> storeVer + 1, pc |-> "publish",
                                   media |-> (CHOOSE p \in hit : TRUE).mediaIds])]
    /\ UNCHANGED <<nextId, cache, published, started, ackedVer, notPost>>

DeletePostFindOneAndDelete(r) ==
    /\ req[r].op = "deletePost" /\ req[r].pc = "findOneAndDelete"
    /\ \E outcome \in CommandOutcomes :
         LET hit == OwnedPost(posts, req[r].id, req[r].user)
         IN  IF outcome = "fail"
             THEN /\ req' = [req EXCEPT ![r] = Caught(r, "findOneAndDeleteFailed")]
                  /\ UNCHANGED <<posts, storeVer>>
             ELSE IF hit = {}
             THEN /\ req' = [req EXCEPT ![r] =
                               Step(r, "notFound",
                                    [pc |-> "done", status |-> 404,
                                     body |-> Message("Post not found")])]
                  /\ UNCHANGED <<posts, storeVer>>
             ELSE /\ posts' = posts \ hit
                  /\ storeVer' = storeVer + 1
                  /\ req' = [req EXCEPT ![r] =
                               Step(r, "storeWrite",
                                    [myVer |-> storeVer + 1, pc |-> "publish",
                                     media |-> (CHOOSE p \in hit : TRUE).mediaIds])]
    /\ UNCHANGED <<nextId, cache, published, started, ackedVer, notPost>>

\* await publishEvent('post.deleted', {...}); a rejection lands in catch (e)
DeletePostPublish(r) ==
    /\ req[r].op = "deletePost" /\ req[r].pc = "publish"
    /\ \E outcome \in PublishOutcomes :
         IF outcome = "ok"
         THEN /\ published' = published \cup
                     {Event("post.deleted", req[r].id, req[r].user, req[r].media)}
              /\ req' = [req EXCEPT ![r] = Step(r, "publish", [pc |-> "delSingle"])]
         ELSE /\ published' = published
              /\ req' = [req EXCEPT ![r] =
                           Step(r, "publishFailed",
                                [pc |-> "done", status |-> 500, pubFailed |-> TRUE,
                                 body |-> Message("Error at Deleting post")])]
    /\ UNCHANGED <<posts, nextId, cache, started, storeVer, ackedVer, notPost>>

\* res.json({success: true, message: "Post deleted successfully"})
DeletePostRespond(r) ==
    /\ req[r].op = "deletePost" /\ req[r].pc = "respond"
    /\ req' = [req EXCEPT ![r] = Respond(r, 200, Message("Post deleted successfully"))]
    /\ ackedVer' = Max(ackedVer, req[r].myVer)
    /\ UNCHANGED <<posts, nextId, cache, published, started, storeVer, notPost>>

----------------------------------------------------------------------------
(* Cache entries: the stored body, and as history the store version it was
   computed from *)

Entry(body, ver) == [body |-> body, ver |-> ver]

\* entries are written with SETEX and disappear when their expiry passes
CacheExpire ==
    /\ \E k \in DOMAIN cache : cache' = CacheDel(cache, {k})
    /\ UNCHANGED <<posts, nextId, published, req, started, storeVer, ackedVer, notPost>>

----------------------------------------------------------------------------
(* getAllPosts *)

\* parseInt(req.query.page) || 1, parseInt(req.query.limit) || 10
GetAllPostsBegin(r) ==
    /\ \E page \in Pages, limit \in Limits :
         req' = [req EXCEPT ![r] =
                   [Idle EXCEPT !.op = "getAllPosts", !.pc = "cacheGet",
                                !.page = page, !.limit = limit,
                                !.startAcked = ackedVer]]
    /\ started' = started + 1

GetAllPostsStart(r) ==
    /\ CanStart(r)
    /\ GetAllPostsBegin(r)
    /\ UNCHANGED <<posts, nextId, cache, published, storeVer, ackedVer, notPost>>

\* const cachedPost = await req.redisClient.get(cacheKey); if (cachedPost) ...
GetAllPostsCacheGet(r) ==
    /\ req[r].op = "getAllPosts" /\ req[r].pc = "cacheGet"
    /\ \E outcome \in CommandOutcomes :
         LET k == ListKey(req[r].page, req[r].limit)
         IN  IF outcome = "fail"
             THEN req' = [req EXCEPT ![r] = Caught(r, "cacheGetFailed")]
             ELSE IF k \in DOMAIN cache
             THEN req' = [req EXCEPT ![r] =
                            Step(r, "cacheHit",
                                 [pc |-> "done", status |-> 200,
                                  body |-> cache[k].body, fromCache |-> TRUE,
                                  servedVer |-> cache[k].ver])]
             ELSE req' = [req EXCEPT ![r] = Step(r, "cacheMiss", [pc |-> "find"])]
    /\ UNCHANGED <<posts, nextId, cache, published, started, storeVer, ackedVer, notPost>>

\* await Post.find({}).sort({createdAt: -1}).skip(startIndex).limit(limit)
GetAllPostsFind(r) ==
    /\ req[r].op = "getAllPosts" /\ req[r].pc = "find"
    /\ \E outcome \in CommandOutcomes :
         IF outcome = "ok"
         THEN req' = [req EXCEPT ![r] =
                        Step(r, "find",
                             [found |-> FindPage(posts, req[r].page, req[r].limit),
                              findVer |-> storeVer, pc |-> "count"])]
         ELSE req' = [req EXCEPT ![r] = Caught(r, "findFailed")]
    /\ UNCHANGED <<posts, nextId, cache, published, started, storeVer, ackedVer, notPost>>

\* await Post.countDocuments()
GetAllPostsCount(r) ==
    /\ req[r].op = "getAllPosts" /\ req[r].pc = "count"
    /\ \E outcome \in CommandOutcomes :
         IF outcome = "ok"
         THEN req' = [req EXCEPT ![r] =
                        Step(r, "count", [total |-> Cardinality(posts),
                                          pc |-> "setex"])]
         ELSE req' = [req EXCEPT ![r] = Caught(r, "countFailed")]
    /\ UNCHANGED <<posts, nextId, cache, published, started, storeVer, ackedVer, notPost>>

ListingResult(r) ==
    Body("listing", req[r].found, req[r].page,
         TotalPages(req[r].total, req[r].limit), req[r].total, "")

\* await req.redisClient.setex(cacheKey, 300, JSON.stringify(result));
\* res.json(result)
GetAllPostsSetex(r) ==
    /\ req[r].op = "getAllPosts" /\ req[r].pc = "setex"
    /\ \E outcome \in CommandOutcomes :
         IF outcome = "ok"
         THEN /\ cache' = CacheSet(cache, ListKey(req[r].page, req[r].limit),
                                   Entry(ListingResult(r), req[r].findVer))
              /\ req' = [req EXCEPT ![r] =
                           Step(r, "setex", [pc |-> "done", status |-> 200,
                                             body |-> ListingResult(r)])]
         ELSE /\ cache' = cache
              /\ req' = [req EXCEPT ![r] = Caught(r, "setexFailed")]
    /\ UNCHANGED <<posts, nextId, published, started, storeVer, ackedVer, notPost>>

----------------------------------------------------------------------------
(* getPost *)

\* getPost is entered with req.params.id
GetPostBegin(r) ==
    /\ \E id \in PostIds :
         req' = [req EXCEPT ![r] =
                   [Idle EXCEPT !.op = "getPost", !.pc = "cacheGet",
                                !.id = id, !.startAcked = ackedVer]]
    /\ started' = started + 1

GetPostStart(r) ==
    /\ CanStart(r)
    /\ GetPostBegin(r)
    /\ UNCHANGED <<posts, nextId, cache, published, storeVer, ackedVer, notPost>>

\* const cachedPost = await req.redisClient.get(cacheKey); if (cachedPost) ...
GetPostCacheGet(r) ==
    /\ req[r].op = "getPost" /\ req[r].pc = "cacheGet"
    /\ \E outcome \in CommandOutcomes :
         LET k == PostKey(req[r].id)
         IN  IF outcome = "fail"
             THEN req' = [req EXCEPT ![r] = Caught(r, "cacheGetFailed")]
             ELSE IF k \in DOMAIN cache
             THEN req' = [req EXCEPT ![r] =
                            Step(r, "cacheHit",
                                 [pc |-> "done", status |-> 200,
                                  body |-> cache[k].body, fromCache |-> TRUE,
                                  servedVer |-> cache[k].ver])]
             ELSE req' = [req EXCEPT ![r] = Step(r, "cacheMiss", [pc |-> "findById"])]
    /\ UNCHANGED <<posts, nextId, cache, published, started, storeVer, ackedVer, notPost>>

\* const singlePost = await Post.findById(postId); if (!singlePost) 404
GetPostFindById(r) ==
    /\ req[r].op = "getPost" /\ req[r].pc = "findById"
    /\ \E outcome \in CommandOutcomes :
         IF outcome = "fail"
         THEN req' = [req EXCEPT ![r] = Caught(r, "findByIdFailed")]
         ELSE IF req[r].id \in PostIdsIn(posts)
         THEN req' = [req EXCEPT ![r] =
                        Step(r, "find", [found |-> <<req[r].id>>,
                                         findVer |-> storeVer, pc |-> "setex"])]
         ELSE req' = [req EXCEPT ![r] =
                        Step(r, "notFound", [pc |-> "done", status |-> 404,
                                             body |-> Message("Post not found")])]
    /\ UNCHANGED <<posts, nextId, cache, published, started, storeVer, ackedVer, notPost>>

\* the key getPost looks up: cacheKey
GetPostCacheKey(r) == PostKey(req[r].id)

\* the key the single-post SETEX is issued with: the variable cachedPost,
\* which is null on this path, not cacheKey
GetPostSetexKey(r) == NullLookupKey

\* await req.redisClient.setex(cachedPost, 3600, JSON.stringify(singlePost));
\* return res.json({singlePost})
GetPostSetex(r) ==
    /\ req[r].op = "getPost" /\ req[r].pc = "setex"
    /\ \E outcome \in CommandOutcomes :
         IF outcome = "ok"
         THEN /\ cache' = CacheSet(cache, GetPostSetexKey(r),
                                   Entry(Body("post", req[r].found, 0, 0, 0, ""),
                                         req[r].findVer))
              /\ req' = [req EXCEPT ![r] =
                           Step(r, "setex",
                                [pc |-> "done", status |-> 200,
                                 body |-> Body("singlePost", req[r].found, 0, 0, 0, "")])]
         ELSE /\ cache' = cache
              /\ req' = [req EXCEPT ![r] = Caught(r, "setexFailed")]
    /\ UNCHANGED <<posts, nextId, published, started, storeVer, ackedVer, notPost>>

----------------------------------------------------------------------------
(* The post service *)

\* the controllers from their first awaited call on
ControllerNext ==
    \E r \in Slots :
        \/ CreatePostSave(r) \/ CreatePostPublish(r) \/ CreatePostRespond(r)
        \/ DeletePostFindOneAndDelete(r)
        \/ DeletePostPublish(r) \/ DeletePostRespond(r)
        \/ InvalidateDelSingle(r) \/ InvalidateKeys(r) \/ InvalidateDelKeys(r)
        \/ GetAllPostsCacheGet(r) \/ GetAllPostsFind(r)
        \/ GetAllPostsCount(r) \/ GetAllPostsSetex(r)
        \/ GetPostCacheGet(r) \/ GetPostFindById(r) \/ GetPostSetex(r)

PostNext ==
    \/ \E r \in Slots :
         \/ CreatePostStart(r) \/ DeletePostStart(r)
         \/ GetAllPostsStart(r) \/ GetPostStart(r)
    \/ ControllerNext

Next == PostNext \/ CacheExpire


----------------------------------------------------------------------------
(* Rate limiters.  Every limiter instance keeps its counters in the shared
   Redis under keyPrefix + identity.  The RateLimiterRedis instances carry an
   explicit keyPrefix; the express-rate-limit instances use RedisStore with
   its default prefix "rl:". *)

LimiterCfg ==
    [gateway_global     |-> [prefix |-> "rl:", points |-> 100, duration |-> 900],
     search_global      |-> [prefix |-> "global_rate_limit", points |-> 100, duration |-> 1],
     search_user        |-> [prefix |-> "search_rate_limit", points |-> 60, duration |-> 60],
     media_global       |-> [prefix |-> "media_global", points |-> 100, duration |-> 1],
     media_upload       |-> [prefix |-> "media_upload", points |-> 5, duration |-> 60],
     post_global        |-> [prefix |-> "middleware", points |-> 50, duration |-> 1],
     post_read          |-> [prefix |-> "rl:", points |-> 1000, duration |-> 900],
     post_write         |-> [prefix |-> "rl:", points |-> 100, duration |-> 900],
     identity_global    |-> [prefix |-> "middleware", points |-> 10, duration |-> 1],
     identity_sensitive |-> [prefix |-> "rl:", points |-> 50, duration |-> 900],
     identity_refresh   |-> [prefix |-> "rl:", points |-> 200, duration |-> 900]]

LimiterNames == DOMAIN LimiterCfg

Prefixes == {LimiterCfg[n].prefix : n \in LimiterNames}

\* identities: the caller under test and one other caller
Idents == {"ip1", "ip2"}

NumReplicas == 2
MaxOver == 2
MaxOtherHits == 1
MaxRollovers == 1

MaxMedia == 2

MaxUploads == 2

MaxDeliveries == 2

MaxFailures == 1

MaxSearchPosts == 2

MaxPending == 2

MaxRedeliveries == 1

MaxQueries == 2

NumIdSlots == 2

MaxTokens == 3

MaxIdCalls == 4

Replicas == 1..NumReplicas

LimiterKey(n, ident) == <<LimiterCfg[n].prefix, ident>>

\* an admission that lets one request too many through
AdmitsOneTooMany(hits, points) == hits <= points + 1

\* a request is admitted when the counter, after its own increment, does not
\* exceed the configured points
Admits(hits, points) == hits <= points

\* the limiters built with express-rate-limit on a RedisStore; the others
\* are RateLimiterRedis instances called from a middleware of the service
ExpressRateLimit == {n \in LimiterNames : LimiterCfg[n].prefix = "rl:"}

\* the answer to a request whose counter command the store rejected: the
\* middlewares around RateLimiterRedis answer 429 from their catch, while
\* express-rate-limit passes the error to next(err) and the error handler
\* answers 500
StoreErrorStatus(n) == IF n \in ExpressRateLimit THEN 500 ELSE 429

NoCall == [pc |-> "idle", name |-> "", ident |-> "", allowed |-> FALSE,
           outcome |-> "", status |-> 0]

LimInitFor(active) ==
    /\ lactive = active
    /\ lcount = [k \in Prefixes \X Idents |-> 0]
    /\ lcall = [p \in Replicas |-> NoCall]
    /\ lrolls = 0
    /\ ladmitted = [x \in LimiterNames \X Idents |-> 0]
    /\ lrejected = {}

\* traffic bound: the caller under test may overrun the limit by MaxOver
\* requests, the other caller sends at most MaxOtherHits
HitsCap(n, ident) == IF ident = "ip1" THEN LimiterCfg[n].points + MaxOver
                     ELSE MaxOtherHits

\* the same bound when several limiters are active: the traffic of the caller
\* under test overruns the smallest of their limits
TrafficCap(ident) ==
    IF ident = "ip1"
    THEN LimiterCfg[CHOOSE n \in lactive :
                      \A m \in lactive :
                         LimiterCfg[n].points <= LimiterCfg[m].points].points
         + MaxOver
    ELSE MaxOtherHits

\* limiter.consume(identity): one atomic increment of the counter in Redis,
\* whose reply carries the counter's new value; when the store rejects the
\* command the counter keeps its value and the request is not admitted
LimiterConsume(p) ==
    /\ lcall[p].pc = "idle"
    /\ \E n \in lactive, ident \in Idents, store \in CommandOutcomes :
         LET k == LimiterKey(n, ident)
             hits == lcount[k] + 1
             ok == Admits(hits, LimiterCfg[n].points)
         IN  IF store = "fail"
             THEN /\ lcall' = [lcall EXCEPT ![p] =
                                 [pc |-> "pending", name |-> n, ident |-> ident,
                                  allowed |-> FALSE, outcome |-> "storeError",
                                  status |-> StoreErrorStatus(n)]]
                  /\ UNCHANGED <<lcount, ladmitted, lrejected>>
             ELSE /\ lcount[k] < HitsCap(n, ident)
                  /\ lcount[k] < TrafficCap(ident)
                  /\ lcount' = [lcount EXCEPT ![k] = hits]
                  /\ lcall' = [lcall EXCEPT ![p] =
                                 [pc |-> "pending", name |-> n, ident |-> ident,
                                  allowed |-> ok,
                                  outcome |-> IF ok THEN "resolved" ELSE "exhausted",
                                  status |-> IF ok THEN 0 ELSE 429]]
                  /\ ladmitted' = IF ok
                                  THEN [ladmitted EXCEPT ![<<n, ident>>] = @ + 1]
                                  ELSE ladmitted
                  /\ lrejected' = IF ok THEN lrejected
                                  ELSE lrejected \cup {<<n, ident, "now">>}
    /\ UNCHANGED <<lactive, lrolls, notLimiter>>

\* the middleware's continuation: next() when admitted, the recorded status
\* when not
LimiterDecide(p) ==
    /\ lcall[p].pc = "pending"
    /\ lcall' = [lcall EXCEPT ![p] = NoCall]
    /\ UNCHANGED <<lactive, lcount, lrolls, ladmitted, lrejected, notLimiter>>

\* the counter's key expires at the end of its window; no explicit reset exists
LimiterExpire ==
    /\ lrolls < MaxRollovers
    /\ \E k \in Prefixes \X Idents :
         /\ lcount[k] > 0
         /\ lcount' = [lcount EXCEPT ![k] = 0]
         /\ ladmitted' = [x \in LimiterNames \X Idents |->
                            IF LimiterKey(x[1], x[2]) = k THEN 0 ELSE ladmitted[x]]
         /\ lrejected' = {IF LimiterKey(x[1], x[2]) = k
                           THEN <<x[1], x[2], "before">> ELSE x : x \in lrejected}
    /\ lrolls' = lrolls + 1
    /\ UNCHANGED <<lactive, lcall, notLimiter>>

LimiterNext ==
    \/ \E p \in Replicas : LimiterConsume(p) \/ LimiterDecide(p)
    \/ LimiterExpire

----------------------------------------------------------------------------
(* API gateway: the middleware chain of one request *)

\* request URLs (req.originalUrl), as path segments; a query string is the
\* last segment and starts with "?"
GwUrls == {<<"v1", "auth", "login">>, <<"v1", "posts", "all-posts">>,
           <<"v1", "media", "upload">>, <<"v1", "search", "posts", "?query=v1">>,
           <<"v1", "users">>, <<"api", "posts", "all-posts">>, <<"health">>,
           <<"V1", "posts", "all-posts">>}

\* request methods: OPTIONS is the one cors() answers itself
GwMethods == {"POST", "OPTIONS"}

\* bearer tokens: jwt.sign({userId, username}, JWT_SECRET_KEY) yields a token
\* that verifies; a forged or expired one does not
Token(userId, ok) == [userId |-> userId, ok |-> ok, present |-> TRUE]

NoToken == [userId |-> "", ok |-> FALSE, present |-> FALSE]

\* Authorization headers: absent, a scheme without a token, or scheme + token
GwAuthHeaders ==
    {[scheme |-> "", token |-> NoToken], [scheme |-> "Bearer", token |-> NoToken],
     [scheme |-> "Bearer", token |-> Token("u1", TRUE)],
     [scheme |-> "Bearer", token |-> Token("u2", TRUE)],
     [scheme |-> "Bearer", token |-> Token("u1", FALSE)]}

\* x-user-id values a client may send itself ("" = header absent)
GwClientUserIds == {"", "u2"}

\* content-type values a client may send ("" = header absent)
GwContentTypes == {"", "text/plain", "multipart/form-data; boundary=x",
                   "application/json"}

\* request bodies: JSON text that parses, and JSON text cut short
GwBodies == {"{}", "{"}

\* JSON.parse(body) of express.json() throws a SyntaxError
GwParseFails(body) == body = "{"

\* express.json() reads and parses the body of an application/json request only
GwIsJson(ct) == ct = "application/json"

GwUpstreamStates == {"up", "down"}

\* NODE_ENV values the gateway may be started with
NodeEnvs == {"production", "development"}

\* what a command sent to the limiter's Redis store may do
GwStoreOutcomes == {"ok", "fail"}

\* err.message of the errors the gateway meets
GwErrorTexts == {"connect ECONNREFUSED", "Cannot read properties of undefined",
                 "Connection is closed.", "Unexpected end of JSON input"}

GwBody(success, message, error) ==
    [success |-> success, message |-> message, error |-> error]

NoGwBody == GwBody("", "", "")

NoForward == [sent |-> FALSE, upstream |-> "", path |-> <<>>, xUserId |-> "",
              contentType |-> ""]

NoGwReq == [pc |-> "idle", ip |-> "", method |-> "", url |-> <<>>, reqBody |-> "",
            auth |-> [scheme |-> "", token |-> NoToken], xUserId |-> "",
            contentType |-> "", hits |-> 0, user |-> "", verified |-> FALSE,
            status |-> 0, body |-> NoGwBody, fwd |-> NoForward, trace |-> <<>>]

GwIdle == greq = NoGwReq /\ genv = "production"

\* errorHandler: status err.status || 500, and a body whose only field is
\* message, err.message unless NODE_ENV is production
ErrorHandlerBody(env, errMessage) ==
    GwBody("", IF env = "production" THEN "Internal Server Error" ELSE errMessage,
           "")

\* proxyErrorHandler: a fixed message and err.message, whatever NODE_ENV is
ProxyErrorBody(env, errMessage) == GwBody("", "Internal server error", errMessage)

GwStep(label, changes) ==
    [x \in DOMAIN greq |->
        IF x \in DOMAIN changes THEN changes[x]
        ELSE IF x = "trace" THEN Append(greq.trace, label)
        ELSE greq[x]]

GwReply(label, status, body) ==
    GwStep(label, [pc |-> "done", status |-> status, body |-> body])

\* a request arrives; app.use(helmet()) sets response headers and calls next()
GwReceive ==
    /\ greq.pc = "idle"
    /\ \E ip \in Idents, method \in GwMethods, url \in GwUrls,
          auth \in GwAuthHeaders, xu \in GwClientUserIds, ct \in GwContentTypes,
          body \in GwBodies :
         /\ lcount[LimiterKey("gateway_global", ip)] < HitsCap("gateway_global", ip)
         /\ ~GwIsJson(ct) => body = "{}"
         /\ greq' = [NoGwReq EXCEPT !.pc = "cors", !.ip = ip, !.method = method,
                                    !.url = url, !.reqBody = body, !.auth = auth,
                                    !.xUserId = xu, !.contentType = ct]
    /\ UNCHANGED <<lcount, ladmitted, notGateway>>

\* app.use(cors()): with the default options (preflightContinue false) an
\* OPTIONS request is answered 204 with an empty body and goes no further;
\* every other method gets the CORS headers and next()
GwCors ==
    /\ greq.pc = "cors"
    /\ greq' = IF greq.method = "OPTIONS" THEN GwReply("preflight", 204, NoGwBody)
               ELSE [greq EXCEPT !.pc = "json"]
    /\ UNCHANGED <<lcount, ladmitted, notGateway>>

\* app.use(express.json()): the body of an application/json request is read
\* and parsed; a body that does not parse goes to next(err) with err.status
\* 400, past every middleware to errorHandler
GwJson ==
    /\ greq.pc = "json"
    /\ greq' = IF GwIsJson(greq.contentType) /\ GwParseFails(greq.reqBody)
               THEN GwReply("parseError", 400,
                            ErrorHandlerBody(genv, "Unexpected end of JSON input"))
               ELSE [greq EXCEPT !.pc = "admission"]
    /\ UNCHANGED <<lcount, ladmitted, notGateway>>

\* app.use(globalRateLimiter): count the request against rl:{ip} (hits is the
\* counter value the store replies with); the handler answers 429 when the
\* limit is exceeded; a store command that fails goes to next(err), and so
\* to errorHandler
GwAdmission ==
    /\ greq.pc = "admission"
    /\ \E outcome \in GwStoreOutcomes :
         LET k == LimiterKey("gateway_global", greq.ip)
             hits == lcount[k] + 1
             ok == Admits(hits, LimiterCfg["gateway_global"].points)
         IN  IF outcome = "fail"
             THEN /\ greq' = GwReply("storeError", 500,
                                     ErrorHandlerBody(genv, "Connection is closed."))
                  /\ UNCHANGED <<lcount, ladmitted>>
             ELSE /\ lcount' = [lcount EXCEPT ![k] = hits]
                  /\ ladmitted' =
                       IF ok
                       THEN [ladmitted EXCEPT ![<<"gateway_global", greq.ip>>] = @ + 1]
                       ELSE ladmitted
                  /\ greq' =
                       IF ok THEN GwStep("admitted", [pc |-> "route", hits |-> hits])
                       ELSE GwStep("limited",
                                   [pc |-> "done", hits |-> hits, status |-> 429,
                                    body |-> GwBody("false", "Too many requests", "")])
    /\ UNCHANGED notGateway

\* the case folding of Express's path matching (the app's "case sensitive
\* routing" setting is off), on the path segments of GwUrls
GwFoldCase(segment) == IF segment = "V1" THEN "v1" ELSE segment

\* app.use(prefix, ...): the upstream a URL is mounted under; a mount matches
\* the leading segments of the path whatever their case
GwUpstreamOf(url) ==
    LET first == IF Len(url) >= 2 THEN GwFoldCase(url[1]) ELSE ""
        second == IF Len(url) >= 2 THEN GwFoldCase(url[2]) ELSE ""
    IN  IF first = "v1" /\ second = "auth" THEN "identity"
        ELSE IF first = "v1" /\ second = "posts" THEN "post"
        ELSE IF first = "v1" /\ second = "media" THEN "media"
        ELSE IF first = "v1" /\ second = "search" THEN "search"
        ELSE "none"

\* the mounts that run validateToken before the proxy
GwProtected(upstream) == upstream \in {"post", "media", "search"}

\* request logging, then the first mount whose prefix matches; no match ends
\* in Express's 404
GwRoute ==
    /\ greq.pc = "route"
    /\ LET up == GwUpstreamOf(greq.url)
       IN  greq' = IF up = "none" THEN GwReply("unmatched", 404, NoGwBody)
                  ELSE IF GwProtected(up) THEN GwStep("routed", [pc |-> "auth"])
                  ELSE GwStep("routed", [pc |-> "forward"])
    /\ UNCHANGED <<lcount, ladmitted, notGateway>>

\* const token = authHeader && authHeader.split(" ")[1]
GwExtractToken(auth) == auth.token

\* a verification that accepts any token that is present
GwVerifyAnyToken(token) == token.present

\* jwt.verify(token, process.env.JWT_SECRET_KEY, cb): err is null
GwVerify(token) == token.present /\ token.ok

\* validateToken
GwAuth ==
    /\ greq.pc = "auth"
    /\ LET token == GwExtractToken(greq.auth)
       IN  greq' =
             IF ~token.present
             THEN GwReply("noToken", 401, GwBody("false", "Authorization required", ""))
             ELSE IF ~GwVerify(token)
             THEN GwReply("badToken", 401, GwBody("false", "Invalid token", ""))
             ELSE GwStep("authenticated",
                         [user |-> token.userId, verified |-> TRUE, pc |-> "forward"])
    /\ UNCHANGED <<lcount, ladmitted, notGateway>>

\* proxyReqPathResolver: req.originalUrl.replace(/^\/v1/, "/api"); the
\* pattern has no i flag, so only a lower-case /v1 is replaced
GwProxyPath(url) == IF Len(url) >= 1 /\ url[1] = "v1" THEN <<"api">> \o Tail(url)
                    ELSE url

\* a decorator that passes the client's own x-user-id header on
GwUserIdHeaderFromClient(upstream, r) == r.xUserId

\* proxyReqOptDecorator: headers["x-user-id"] = srcReq.user.userId on the
\* protected mounts; the identity mount leaves the client's headers as sent
GwUserIdHeader(upstream, r) == IF GwProtected(upstream) THEN r.user ELSE r.xUserId

IsMultipart(ct) == ct = "multipart/form-data; boundary=x"

\* proxyReqOptDecorator: Content-Type forced to application/json, except
\* multipart/form-data on the media mount
GwContentTypeHeader(upstream, ct) ==
    IF upstream = "media" /\ IsMultipart(ct) THEN ct ELSE "application/json"

\* the media decorator calls srcReq.headers['content-type'].startsWith(...),
\* which throws a TypeError when the header is absent
GwDecoratorThrows(upstream, ct) == upstream = "media" /\ ct = ""

\* proxy(...): decorate the outgoing request and send it; relay the answer,
\* or answer 500 from proxyErrorHandler when a decorator throws or the
\* upstream cannot be reached
GwForward ==
    /\ greq.pc = "forward"
    /\ LET up == GwUpstreamOf(greq.url)
       IN  IF GwDecoratorThrows(up, greq.contentType)
           THEN greq' = GwReply("decoratorError", 500,
                                ProxyErrorBody(genv,
                                               "Cannot read properties of undefined"))
           ELSE \E state \in GwUpstreamStates :
                  LET out == [sent |-> TRUE, upstream |-> up,
                              path |-> GwProxyPath(greq.url),
                              xUserId |-> GwUserIdHeader(up, greq),
                              contentType |-> GwContentTypeHeader(up, greq.contentType)]
                  IN  greq' =
                        IF state = "up"
                        THEN GwStep("forwarded", [pc |-> "done", status |-> 200,
                                                  fwd |-> out])
                        ELSE GwStep("proxyError",
                                    [pc |-> "done", status |-> 500,
                                     body |-> ProxyErrorBody(genv,
                                                             "connect ECONNREFUSED")])
    /\ UNCHANGED <<lcount, ladmitted, notGateway>>

\* the response has been written; the gateway is ready for the next request
GwFinish ==
    /\ greq.pc = "done"
    /\ greq' = NoGwReq
    /\ UNCHANGED <<lcount, ladmitted, notGateway>>

GatewayNext == GwReceive \/ GwCors \/ GwJson \/ GwAdmission \/ GwRoute
               \/ GwAuth \/ GwForward \/ GwFinish

----------------------------------------------------------------------------
(* Event delivery to a consumer: consumeEvent(routingKey, handler) *)

\* what the subscription does with a delivered message once the handler has
\* finished: a handler that threw leaves the message unacknowledged, so the
\* broker delivers it again; a handler that returned acknowledges it
SettleOutcome(threw) == IF threw THEN "requeue" ELSE "ack"

OpOutcomes == {"ok", "fail"}

----------------------------------------------------------------------------
(* Media service: handlePostDeleted *)

MediaIds == 1..MaxMedia

\* the mediaIds arrays of post.deleted payloads
MediaIdLists == {<<>>} \cup {<<a>> : a \in MediaIds}
                \cup UNION {{<<a, b>> : b \in MediaIds \ {a}} : a \in MediaIds}

MinOf(S) == CHOOSE x \in S : \A y \in S : x <= y

RECURSIVE SortedAsc(_)
SortedAsc(S) == IF S = {} THEN <<>>
                ELSE <<MinOf(S)>> \o SortedAsc(S \ {MinOf(S)})

RangeOf(q) == {q[i] : i \in 1..Len(q)}

NoEvent == Event("", 0, "", <<>>)

NoWork == [pc |-> "idle", event |-> NoEvent, todo |-> <<>>, i |-> 0,
           failed |-> FALSE, failedId |-> 0, threw |-> FALSE,
           attempted |-> {}, acked |-> FALSE, deliveries |-> 0, failures |-> 0,
           handledBefore |-> FALSE]

\* the _id that new Media(...) generates is an id never seen before, so
\* no message in the queue names it
UploadIds == (MaxMedia + 1)..(MaxMedia + MaxUploads)

\* unsaved: the uploads whose blob exists and whose record is not saved
NoUpload == [pc |-> "idle", id |-> 0, status |-> 0, count |-> 0, unsaved |-> {}]

MediaQuiet == /\ mrecords = {} /\ mblobs = {} /\ mqueue = <<>> /\ mwork = NoWork
              /\ mup = NoUpload

\* uploaded media (blob and record), and one post.deleted message in the queue
MediaInit ==
    /\ mrecords \in SUBSET MediaIds
    /\ mblobs = mrecords
    /\ \E ids \in MediaIdLists : mqueue = <<Event("post.deleted", 1, "u1", ids)>>
    /\ mwork = NoWork
    /\ mup = NoUpload

\* the same with the message in the queue twice: the broker delivers at least
\* once, so the handler may be given a message it has already handled
MediaTwiceInit ==
    /\ mrecords \in SUBSET MediaIds
    /\ mblobs = mrecords
    /\ \E ids \in MediaIdLists :
         mqueue = <<Event("post.deleted", 1, "u1", ids),
                    Event("post.deleted", 1, "u1", ids)>>
    /\ mwork = NoWork
    /\ mup = NoUpload

\* the broker delivers the oldest unacknowledged message to the handler; the
\* execution notes whether the handler has run on this message before and
\* finished without a failure
MediaDeliver ==
    /\ mwork.pc \in {"idle", "settled"}
    /\ mqueue # <<>>
    /\ mwork.deliveries < MaxDeliveries
    /\ mwork' = [NoWork EXCEPT !.pc = "find", !.event = Head(mqueue),
                               !.deliveries = mwork.deliveries + 1,
                               !.failures = mwork.failures,
                               !.handledBefore =
                                   /\ mwork.pc = "settled" /\ ~mwork.failed
                                   /\ mwork.event = Head(mqueue)]
    /\ UNCHANGED <<mrecords, mblobs, mqueue, mup, notMedia>>

\* catch (e) { logger.error(...) }: the handler logs and returns normally
MediaCaught(id) ==
    [mwork EXCEPT !.pc = "returned", !.failed = TRUE, !.failedId = id,
                  !.threw = FALSE, !.failures = @ + 1]

\* the store and the blob service fail at most MaxFailures times in all
MediaOutcomes == IF mwork.failures < MaxFailures THEN OpOutcomes ELSE {"ok"}

\* a lookup that returns every id of the payload, with or without a record
MediaFindEveryId ==
    /\ mwork.pc = "find"
    /\ \E outcome \in MediaOutcomes :
         mwork' = IF outcome = "ok"
                  THEN LET found == SortedAsc(RangeOf(mwork.event.mediaIds))
                       IN  IF Len(found) > 0
                           THEN [mwork EXCEPT !.todo = found, !.i = 1,
                                              !.pc = "deleteBlob"]
                           ELSE [mwork EXCEPT !.pc = "returned"]
                  ELSE MediaCaught(0)
    /\ UNCHANGED <<mrecords, mblobs, mqueue, mup, notMedia>>

\* const mediaToDelete = await Media.find({ _id: { $in: mediaIds } })
MediaFind ==
    /\ mwork.pc = "find"
    /\ \E outcome \in MediaOutcomes :
         mwork' = IF outcome = "ok"
                  THEN LET found == SortedAsc(mrecords \cap RangeOf(mwork.event.mediaIds))
                       IN  IF Len(found) > 0
                           THEN [mwork EXCEPT !.todo = found, !.i = 1,
                                              !.pc = "deleteBlob"]
                           ELSE [mwork EXCEPT !.pc = "returned"]
                  ELSE MediaCaught(0)
    /\ UNCHANGED <<mrecords, mblobs, mqueue, mup, notMedia>>

\* a blob deletion whose failure is passed over: the loop goes on to the
\* record whether the blob is gone or not
MediaBlobFailureIgnored ==
    /\ mwork.pc = "deleteBlob"
    /\ LET id == mwork.todo[mwork.i]
       IN  \E outcome \in MediaOutcomes :
             /\ mblobs' = IF outcome = "ok" THEN mblobs \ {id} ELSE mblobs
             /\ mwork' = [mwork EXCEPT !.pc = "deleteRecord",
                                       !.attempted = @ \cup {id},
                                       !.failures = IF outcome = "ok" THEN @
                                                    ELSE @ + 1]
    /\ UNCHANGED <<mrecords, mqueue, mup, notMedia>>

\* await deleteMediaFromCloudinary(media.publicId)
MediaDeleteBlob ==
    /\ mwork.pc = "deleteBlob"
    /\ LET id == mwork.todo[mwork.i]
       IN  \E outcome \in MediaOutcomes :
             IF outcome = "ok"
             THEN /\ mblobs' = mblobs \ {id}
                  /\ mwork' = [mwork EXCEPT !.pc = "deleteRecord",
                                            !.attempted = @ \cup {id}]
             ELSE /\ mblobs' = mblobs
                  /\ mwork' = [MediaCaught(id) EXCEPT !.attempted = @ \cup {id}]
    /\ UNCHANGED <<mrecords, mqueue, mup, notMedia>>

\* the loop after one media has been handled: next media, or the handler ends
MediaAfterRecord(w) ==
    IF w.i < Len(w.todo) THEN [w EXCEPT !.pc = "deleteBlob", !.i = w.i + 1]
    ELSE [w EXCEPT !.pc = "returned"]

\* await Media.findByIdAndDelete(media._id)
MediaDeleteRecord ==
    /\ mwork.pc = "deleteRecord"
    /\ LET id == mwork.todo[mwork.i]
       IN  \E outcome \in MediaOutcomes :
             IF outcome = "ok"
             THEN /\ mrecords' = mrecords \ {id}
                  /\ mwork' = MediaAfterRecord(mwork)
             ELSE /\ mrecords' = mrecords
                  /\ mwork' = MediaCaught(id)
    /\ UNCHANGED <<mblobs, mqueue, mup, notMedia>>

\* the subscription settles the message after the handler has finished
MediaSettle ==
    /\ mwork.pc = "returned"
    /\ IF SettleOutcome(mwork.threw) = "ack"
       THEN /\ mqueue' = Tail(mqueue)
            /\ mwork' = [mwork EXCEPT !.pc = "settled", !.acked = TRUE]
       ELSE /\ mqueue' = mqueue
            /\ mwork' = [mwork EXCEPT !.pc = "settled", !.acked = FALSE]
    /\ UNCHANGED <<mrecords, mblobs, mup, notMedia>>

MediaNext == MediaDeliver \/ MediaFind \/ MediaDeleteBlob \/ MediaDeleteRecord
             \/ MediaSettle

----------------------------------------------------------------------------
(* Media service: uploadMedia.  A blob is named here by the id of the record
   that is created for it. *)

\* if (!req.file) return res.status(400)...; otherwise the upload begins
MediaUploadStart ==
    /\ mup.pc \in {"idle", "done"}
    /\ mup.count < MaxUploads
    /\ \E hasFile \in BOOLEAN :
         mup' = IF hasFile
                THEN [mup EXCEPT !.pc = "cloudinary", !.status = 0,
                                 !.id = MaxMedia + mup.count + 1,
                                 !.count = @ + 1]
                ELSE [mup EXCEPT !.pc = "done", !.status = 400, !.id = 0]
    /\ UNCHANGED <<mrecords, mblobs, mqueue, mwork, notMedia>>

\* await uploadMediaToCloudinary(req.file): the blob exists once it resolves;
\* a rejection lands in the catch, which answers 500
MediaUploadCloudinary ==
    /\ mup.pc = "cloudinary"
    /\ \E outcome \in OpOutcomes :
         IF outcome = "ok"
         THEN /\ mblobs' = mblobs \cup {mup.id}
              /\ mup' = [mup EXCEPT !.pc = "save", !.unsaved = @ \cup {mup.id}]
         ELSE /\ mblobs' = mblobs
              /\ mup' = [mup EXCEPT !.pc = "done", !.status = 500]
    /\ UNCHANGED <<mrecords, mqueue, mwork, notMedia>>

\* await newlyCreatedMedia.save(), then 201; a rejection lands in the catch,
\* which answers 500 and leaves the blob where it is
MediaUploadSave ==
    /\ mup.pc = "save"
    /\ \E outcome \in OpOutcomes :
         IF outcome = "ok"
         THEN /\ mrecords' = mrecords \cup {mup.id}
              /\ mup' = [mup EXCEPT !.pc = "done", !.status = 201,
                                    !.unsaved = @ \ {mup.id}]
         ELSE /\ mrecords' = mrecords
              /\ mup' = [mup EXCEPT !.pc = "done", !.status = 500]
    /\ UNCHANGED <<mblobs, mqueue, mwork, notMedia>>

MediaUploadNext == MediaUploadStart \/ MediaUploadCloudinary \/ MediaUploadSave

\* the worker and the upload route run in the one process
MediaServiceNext == MediaNext \/ MediaUploadNext

----------------------------------------------------------------------------
(* Search service: the indexer's handlers for post.created and post.deleted *)

SearchPostIds == 1..MaxSearchPosts

Contents == {"hello", "world"}

SearchEvent(type, postId, userId, content) ==
    [type |-> type, postId |-> postId, userId |-> userId, content |-> content]

SearchEvents ==
    {SearchEvent("post.created", p, "u1", c) : p \in SearchPostIds, c \in Contents}
    \cup {SearchEvent("post.deleted", p, "u1", "") : p \in SearchPostIds}

Doc(e) == [userId |-> e.userId, content |-> e.content]

\* the index maps a postId to the documents stored under it
EmptyIndex == [x \in {} |-> <<>>]

\* a create handler that inserts one more document whatever is stored
HandlePostCreatedInserts(idx, e) ==
    [x \in (DOMAIN idx) \cup {e.postId} |->
        IF x # e.postId THEN idx[x]
        ELSE IF x \in DOMAIN idx THEN Append(idx[x], Doc(e)) ELSE <<Doc(e)>>]

\* a delete handler that leaves the document in place
HandlePostDeletedKeeps(idx, e) == idx

\* handlePostCreated: upsert the document for the event's postId
HandlePostCreated(idx, e) ==
    [x \in (DOMAIN idx) \cup {e.postId} |->
        IF x # e.postId THEN idx[x]
        ELSE IF x \in DOMAIN idx THEN <<Doc(e)>> \o Tail(idx[x]) ELSE <<Doc(e)>>]

\* handlePostDeleted: remove the document for the event's postId, if any
HandlePostDeleted(idx, e) == [x \in (DOMAIN idx) \ {e.postId} |-> idx[x]]

\* how a handler run ends: an upsert accepts a postId that is already indexed,
\* a delete accepts a postId that is not indexed
HandlerOutcome(idx, e) == "ok"

ApplyEvent(idx, e) == IF e.type = "post.created" THEN HandlePostCreated(idx, e)
                      ELSE HandlePostDeleted(idx, e)

RECURSIVE ApplyAll(_, _)
ApplyAll(idx, q) == IF q = <<>> THEN idx ELSE ApplyAll(ApplyEvent(idx, Head(q)), Tail(q))

SearchHandlersQuiet ==
    /\ sindex = EmptyIndex /\ spending = {} /\ sorder = <<>> /\ sinit = EmptyIndex
    /\ soutcome = <<>> /\ sredelivered = 0

\* an index built from earlier events, and a set of delivered events
SearchHandlersInit ==
    /\ \E S \in SUBSET SearchPostIds, c \in Contents :
         sindex = [x \in S |-> <<Doc(SearchEvent("post.created", x, "u1", c))>>]
    /\ sinit = sindex
    /\ spending \in {E \in SUBSET SearchEvents : Cardinality(E) <= MaxPending}
    /\ sorder = <<>>
    /\ soutcome = <<>>
    /\ sredelivered = 0

\* one run of a handler on a delivered event: the index after the run, and
\* the message acknowledged unless the handler failed
SearchHandle(e) ==
    LET outcome == HandlerOutcome(sindex, e)
    IN  /\ Len(sorder) < MaxPending + MaxRedeliveries
        /\ sindex' = IF outcome = "ok" THEN ApplyEvent(sindex, e) ELSE sindex
        /\ spending' = IF SettleOutcome(outcome # "ok") = "ack" THEN spending \ {e}
                       ELSE spending
        /\ sorder' = Append(sorder, e)
        /\ soutcome' = Append(soutcome, outcome)

\* consumeEvent("post.created", handlePostCreated)
SearchOnPostCreated ==
    \E e \in spending :
        /\ e.type = "post.created"
        /\ SearchHandle(e)
        /\ UNCHANGED <<sinit, sredelivered, scache, sq, notSearch>>

\* consumeEvent("post.deleted", handlePostDeleted)
SearchOnPostDeleted ==
    \E e \in spending :
        /\ e.type = "post.deleted"
        /\ SearchHandle(e)
        /\ UNCHANGED <<sinit, sredelivered, scache, sq, notSearch>>

\* at-least-once delivery: the broker delivers a handled message once more
SearchRedeliver ==
    /\ sredelivered < MaxRedeliveries
    /\ \E i \in 1..Len(sorder) :
         /\ sorder[i] \notin spending
         /\ spending' = spending \cup {sorder[i]}
    /\ sredelivered' = sredelivered + 1
    /\ UNCHANGED <<sindex, sorder, sinit, soutcome, scache, sq, notSearch>>

----------------------------------------------------------------------------
(* Search service: searchPostController, with its Redis cache *)

\* query strings a client sends ("" = parameter absent)
SearchQueries == {"", "hello", "Hello", "world"}

\* query.toLowerCase()
ToLowerCase(q) == IF q = "Hello" THEN "hello" ELSE q

\* cacheKey = `search:${query.toLowerCase()}`
SearchCacheKey(q) == <<"search", ToLowerCase(q)>>

\* $text: { $search: query } matches case-insensitively on the content
Matches(content, q) == content = ToLowerCase(q)

\* .limit(10)
SearchResultLimit == 10

Hit(p, doc) == [postId |-> p, userId |-> doc.userId, content |-> doc.content]

RECURSIVE HitsFrom(_, _, _)
HitsFrom(idx, ps, q) ==
    IF ps = <<>> THEN <<>>
    ELSE LET p == Head(ps)
             IsHit(h) == Matches(h.content, q)
             docs == [i \in 1..Len(idx[p]) |-> Hit(p, idx[p][i])]
         IN  SelectSeq(docs, IsHit) \o HitsFrom(idx, Tail(ps), q)

\* Search.find({$text: {$search: query}}).sort(score).limit(10)
SearchFind(idx, q) ==
    LET all == HitsFrom(idx, SortedAsc(DOMAIN idx), q)
    IN  SubSeq(all, 1, Min(SearchResultLimit, Len(all)))

EmptySearchCache == [x \in {} |-> <<>>]

NoQuery == [pc |-> "idle", query |-> "", result |-> <<>>, status |-> 0,
            fromCache |-> FALSE, startHandled |-> 0, n |-> 0]

SearchQueriesQuiet == scache = EmptySearchCache /\ sq = NoQuery

SearchQuiet == SearchHandlersQuiet /\ SearchQueriesQuiet

SearchInit == SearchHandlersInit /\ SearchQueriesQuiet

\* catch (e): 500 "Error while searching post"
SearchQueryFailed == [sq EXCEPT !.pc = "done", !.status = 500, !.result = <<>>]

\* GET /api/search/posts?query=...; 400 when the query is missing
SearchQueryStart ==
    /\ sq.pc \in {"idle", "done"}
    /\ sq.n < MaxQueries
    /\ \E q \in SearchQueries :
         sq' = IF q = ""
               THEN [NoQuery EXCEPT !.pc = "done", !.status = 400, !.n = sq.n + 1,
                                    !.startHandled = Len(sorder)]
               ELSE [NoQuery EXCEPT !.pc = "cacheGet", !.query = q, !.n = sq.n + 1,
                                    !.startHandled = Len(sorder)]
    /\ UNCHANGED <<sindex, spending, sorder, sinit, soutcome, sredelivered, scache,
                   notSearch>>

\* const cacheResult = await redis.get(cacheKey); a hit is returned as it is
SearchQueryCacheGet ==
    /\ sq.pc = "cacheGet"
    /\ \E outcome \in OpOutcomes :
         sq' = IF outcome = "fail" THEN SearchQueryFailed
               ELSE IF SearchCacheKey(sq.query) \in DOMAIN scache
               THEN [sq EXCEPT !.pc = "done", !.status = 200, !.fromCache = TRUE,
                               !.result = scache[SearchCacheKey(sq.query)]]
               ELSE [sq EXCEPT !.pc = "find"]
    /\ UNCHANGED <<sindex, spending, sorder, sinit, soutcome, sredelivered, scache,
                   notSearch>>

\* const result = await Search.find(...)
SearchQueryFind ==
    /\ sq.pc = "find"
    /\ \E outcome \in OpOutcomes :
         sq' = IF outcome = "fail" THEN SearchQueryFailed
               ELSE [sq EXCEPT !.pc = "setex", !.result = SearchFind(sindex, sq.query)]
    /\ UNCHANGED <<sindex, spending, sorder, sinit, soutcome, sredelivered, scache,
                   notSearch>>

\* await redis.setex(cacheKey, 60, JSON.stringify(result)); res.json(result)
SearchQuerySetex ==
    /\ sq.pc = "setex"
    /\ \E outcome \in OpOutcomes :
         IF outcome = "fail"
         THEN /\ sq' = SearchQueryFailed
              /\ scache' = scache
         ELSE /\ sq' = [sq EXCEPT !.pc = "done", !.status = 200]
              /\ scache' = [k \in (DOMAIN scache) \cup {SearchCacheKey(sq.query)} |->
                              IF k = SearchCacheKey(sq.query) THEN sq.result
                              ELSE scache[k]]
    /\ UNCHANGED <<sindex, spending, sorder, sinit, soutcome, sredelivered, notSearch>>

\* a cached result expires 60 seconds after it was stored
SearchCacheExpire ==
    /\ \E k \in DOMAIN scache :
         scache' = [x \in (DOMAIN scache) \ {k} |-> scache[x]]
    /\ UNCHANGED <<sindex, spending, sorder, sinit, soutcome, sredelivered, sq,
                   notSearch>>

\* the indexer
SearchNext == SearchOnPostCreated \/ SearchOnPostDeleted \/ SearchRedeliver

\* the indexer and the search endpoint side by side
SearchServiceNext ==
    \/ SearchOnPostCreated \/ SearchOnPostDeleted \/ SearchRedeliver
    \/ SearchQueryStart \/ SearchQueryCacheGet \/ SearchQueryFind
    \/ SearchQuerySetex \/ SearchCacheExpire

----------------------------------------------------------------------------
(* Identity service: loginUser, refreshTokenUser, logoutUser *)

\* the _id values of the User collection, in the order they are given out
UserIdPool == <<"u1", "u2", "u3", "u4">>

\* userSchema.pre('save'): this.password = await argon2.hash(this.password)
HashPassword(password) == <<"argon2", password>>

\* userSchema.methods.comparePassword: argon2.verify(this.password, candidate)
ComparePassword(hash, candidate) == hash = HashPassword(candidate)

\* a User collection holding one registered user
KnownUsers == {[id |-> "u1", username |-> "carol", email |-> "c@x.io",
                password |-> HashPassword("pw")]}

\* req.body.email and req.body.password of the login requests sent
LoginEmails == {"c@x.io", "z@x.io"}

LoginPasswords == {"pw", "bad"}

\* User.findOne({ email })
UsersByEmail(users, email) == {u \in users : u.email = email}

\* User.findById(id)
UsersById(users, id) == {u \in users : u.id = id}

IdSlots == 1..NumIdSlots

\* refresh tokens are fresh random strings; the n-th token issued is n
TokenIds == 1..MaxTokens

\* a string that is not a token the service ever issued
BogusToken == MaxTokens + 1

\* req.body.refreshToken: absent (0), a token the service has returned to a
\* client, or some other string
TokenChoices == {0, BogusToken} \cup ihist.given

NoIdCall == [pc |-> "idle", op |-> "", token |-> 0, user |-> "", newToken |-> 0,
             status |-> 0, failed |-> FALSE, afterUse |-> FALSE,
             afterLogout |-> FALSE, username |-> "", email |-> "",
             password |-> "", existed |-> FALSE]

NoIdHist == [used |-> {}, issued |-> {}, given |-> {}, loggedOut |-> {},
             presents |-> [t \in TokenIds |-> 0], calls |-> 0]

IdentityInit ==
    /\ itokens = {} /\ inext = 1 /\ iexpired = {}
    /\ icall = [s \in IdSlots |-> NoIdCall]
    /\ ihist = NoIdHist

\* a deleteOne that leaves the stored token in place
KeepToken(store, t, u) == store

\* RefreshToken.deleteOne({ _id: storedToken._id })
RemoveToken(store, t, u) == store \ {[token |-> t, user |-> u]}

\* generateTokens: crypto.randomBytes(40).toString('hex'), a token never
\* issued before
GenerateToken(next, presented) == next

\* RefreshToken.findOne({ token }): the stored document, if any
StoredTokens(t) == {d \in itokens : d.token = t}

\* storedToken.expiresAt < new Date()
IsExpired(t) == t \in iexpired

IdFailed(s, status) ==
    [icall EXCEPT ![s].pc = "done", ![s].status = status, ![s].failed = TRUE]

IdCanStart(s) ==
    /\ icall[s].pc \in {"idle", "done"}
    /\ ihist.calls < MaxIdCalls

IdPresent(t) ==
    [ihist EXCEPT !.calls = @ + 1,
                  !.presents = IF t \in TokenIds THEN [@ EXCEPT ![t] = @ + 1] ELSE @]

\* loginUser: validatelogin(req.body); 400 on a validation error
IdLoginStart(s) ==
    /\ IdCanStart(s)
    /\ \E valid \in BOOLEAN, em \in LoginEmails, pw \in LoginPasswords :
         icall' = [icall EXCEPT ![s] =
                     IF valid
                     THEN [NoIdCall EXCEPT !.pc = "loginFindOne", !.op = "login",
                                           !.email = em, !.password = pw]
                     ELSE [NoIdCall EXCEPT !.pc = "done", !.op = "login",
                                           !.status = 400]]
    /\ ihist' = [ihist EXCEPT !.calls = @ + 1]
    /\ UNCHANGED <<itokens, inext, iexpired, notIdentity>>

\* const user = await User.findOne({ email }); 400 'Invalid Credentials'
IdLoginFindOne(s) ==
    /\ icall[s].pc = "loginFindOne"
    /\ \E outcome \in OpOutcomes :
         icall' = IF outcome = "fail" THEN IdFailed(s, 500)
                  ELSE IF UsersByEmail(iusers, icall[s].email) = {}
                  THEN [icall EXCEPT ![s].pc = "done", ![s].status = 400]
                  ELSE [icall EXCEPT ![s].pc = "loginCompare",
                          ![s].user = (CHOOSE u \in UsersByEmail(iusers, icall[s].email) :
                                          TRUE).id]
    /\ UNCHANGED <<itokens, inext, iexpired, ihist, notIdentity>>

\* await user.comparePassword(password); 400 'Invalid Credentials'
IdLoginCompare(s) ==
    /\ icall[s].pc = "loginCompare"
    /\ \E outcome \in OpOutcomes :
         icall' = IF outcome = "fail" THEN IdFailed(s, 500)
                  ELSE IF \A u \in UsersById(iusers, icall[s].user) :
                            ~ComparePassword(u.password, icall[s].password)
                  THEN [icall EXCEPT ![s].pc = "done", ![s].status = 400]
                  ELSE [icall EXCEPT ![s].pc = "loginGenerate"]
    /\ UNCHANGED <<itokens, inext, iexpired, ihist, notIdentity>>

\* await generateTokens(user): RefreshToken.create({token, user: user._id,
\* expiresAt}), then the 200 response with the tokens and the user id
IdLoginGenerate(s) ==
    /\ icall[s].pc = "loginGenerate"
    /\ inext <= MaxTokens
    /\ \E outcome \in OpOutcomes :
         IF outcome = "fail"
         THEN /\ icall' = IdFailed(s, 500)
              /\ UNCHANGED <<itokens, inext, ihist>>
         ELSE LET t == GenerateToken(inext, 0)
              IN  /\ itokens' = itokens \cup {[token |-> t, user |-> icall[s].user]}
                  /\ inext' = inext + 1
                  /\ icall' = [icall EXCEPT ![s].pc = "done", ![s].status = 200,
                                            ![s].newToken = t]
                  /\ ihist' = [ihist EXCEPT !.given = @ \cup {t}]
    /\ UNCHANGED <<iexpired, notIdentity>>

\* refreshTokenUser: read req.body.refreshToken; 400 when it is missing
IdRefreshStart(s) ==
    /\ IdCanStart(s)
    /\ \E t \in TokenChoices :
         /\ icall' = [icall EXCEPT ![s] =
                        IF t = 0
                        THEN [NoIdCall EXCEPT !.pc = "done", !.op = "refresh",
                                              !.status = 400]
                        ELSE [NoIdCall EXCEPT !.pc = "findOne", !.op = "refresh",
                                              !.token = t,
                                              !.afterUse = t \in ihist.used,
                                              !.afterLogout = t \in ihist.loggedOut]]
         /\ ihist' = IdPresent(t)
    /\ UNCHANGED <<itokens, inext, iexpired, notIdentity>>

\* RefreshToken.findOne({ token }); 401 when absent or expired
IdRefreshFindOne(s) ==
    /\ icall[s].pc = "findOne"
    /\ \E outcome \in OpOutcomes :
         icall' = IF outcome = "fail" THEN IdFailed(s, 500)
                  ELSE IF StoredTokens(icall[s].token) = {} \/ IsExpired(icall[s].token)
                  THEN [icall EXCEPT ![s].pc = "done", ![s].status = 401]
                  ELSE [icall EXCEPT ![s].pc = "findUser",
                          ![s].user = (CHOOSE d \in StoredTokens(icall[s].token) : TRUE).user]
    /\ UNCHANGED <<itokens, inext, iexpired, ihist, notIdentity>>

\* User.findById(storedToken.user); 401 when the user is gone
IdRefreshFindUser(s) ==
    /\ icall[s].pc = "findUser"
    /\ \E outcome \in OpOutcomes :
         icall' = IF outcome = "fail" THEN IdFailed(s, 500)
                  ELSE IF UsersById(iusers, icall[s].user) = {}
                  THEN [icall EXCEPT ![s].pc = "done", ![s].status = 401]
                  ELSE [icall EXCEPT ![s].pc = "generate"]
    /\ UNCHANGED <<itokens, inext, iexpired, ihist, notIdentity>>

\* generateTokens(user): RefreshToken.create({token, user, expiresAt})
IdRefreshGenerate(s) ==
    /\ icall[s].pc = "generate"
    /\ inext <= MaxTokens
    /\ \E outcome \in OpOutcomes :
         IF outcome = "fail"
         THEN /\ icall' = IdFailed(s, 500)
              /\ UNCHANGED <<itokens, inext>>
         ELSE LET t == GenerateToken(inext, icall[s].token)
              IN  /\ itokens' = itokens \cup {[token |-> t, user |-> icall[s].user]}
                  /\ inext' = inext + 1
                  /\ icall' = [icall EXCEPT ![s].pc = "deleteOne", ![s].newToken = t]
    /\ UNCHANGED <<iexpired, ihist, notIdentity>>

\* RefreshToken.deleteOne({ _id: storedToken._id }), then the 200 response
\* with the new tokens
IdRefreshDeleteOne(s) ==
    /\ icall[s].pc = "deleteOne"
    /\ \E outcome \in OpOutcomes :
         IF outcome = "fail"
         THEN /\ icall' = IdFailed(s, 500)
              /\ UNCHANGED <<itokens, ihist>>
         ELSE /\ itokens' = RemoveToken(itokens, icall[s].token, icall[s].user)
              /\ icall' = [icall EXCEPT ![s].pc = "done", ![s].status = 200]
              /\ ihist' = [ihist EXCEPT !.used = @ \cup {icall[s].token},
                                        !.issued = @ \cup {icall[s].newToken},
                                        !.given = @ \cup {icall[s].newToken}]
    /\ UNCHANGED <<inext, iexpired, notIdentity>>

\* logoutUser: read req.body.refreshToken; 400 when it is missing
IdLogoutStart(s) ==
    /\ IdCanStart(s)
    /\ \E t \in TokenChoices :
         /\ icall' = [icall EXCEPT ![s] =
                        IF t = 0
                        THEN [NoIdCall EXCEPT !.pc = "done", !.op = "logout",
                                              !.status = 400]
                        ELSE [NoIdCall EXCEPT !.pc = "logoutDelete", !.op = "logout",
                                              !.token = t]]
         /\ ihist' = IdPresent(t)
    /\ UNCHANGED <<itokens, inext, iexpired, notIdentity>>

\* a logout that answers 200 and leaves the stored token in place
IdLogoutKeepsToken(s) ==
    /\ icall[s].pc = "logoutDelete"
    /\ icall' = [icall EXCEPT ![s].pc = "done", ![s].status = 200]
    /\ ihist' = [ihist EXCEPT !.loggedOut = @ \cup {icall[s].token}]
    /\ UNCHANGED <<itokens, inext, iexpired, notIdentity>>

\* RefreshToken.deleteOne({ token: refreshToken }), then the 200 response
IdLogoutDeleteOne(s) ==
    /\ icall[s].pc = "logoutDelete"
    /\ \E outcome \in OpOutcomes :
         IF outcome = "fail"
         THEN /\ icall' = IdFailed(s, 500)
              /\ UNCHANGED <<itokens, ihist>>
         ELSE /\ itokens' = itokens \ StoredTokens(icall[s].token)
              /\ icall' = [icall EXCEPT ![s].pc = "done", ![s].status = 200]
              /\ ihist' = [ihist EXCEPT !.loggedOut = @ \cup {icall[s].token}]
    /\ UNCHANGED <<inext, iexpired, notIdentity>>

\* time passes the expiresAt of a stored token (7 days after it was issued)
IdExpire ==
    /\ \E d \in itokens :
         /\ d.token \notin iexpired
         /\ iexpired' = iexpired \cup {d.token}
    /\ UNCHANGED <<itokens, inext, icall, ihist, notIdentity>>

IdentityNext ==
    \/ \E s \in IdSlots :
         \/ IdLoginStart(s) \/ IdLoginFindOne(s) \/ IdLoginCompare(s)
         \/ IdLoginGenerate(s)
         \/ IdRefreshStart(s) \/ IdRefreshFindOne(s) \/ IdRefreshFindUser(s)
         \/ IdRefreshGenerate(s) \/ IdRefreshDeleteOne(s)
         \/ IdLogoutStart(s) \/ IdLogoutDeleteOne(s)
    \/ IdExpire

----------------------------------------------------------------------------
(* Post service: the middleware chain of one request, in the order of the
   app.use calls: global limiter, the /api/posts router, readLimiter, the
   write gate, Express's 404 *)

MaxChainRequests == 3

\* method and path (below /api/posts) of the requests sent
ChainRequests ==
    {[method |-> "POST", path |-> "create-post"],
     [method |-> "GET", path |-> "all-posts"],
     [method |-> "GET", path |-> ":id"],
     [method |-> "DELETE", path |-> ":id"],
     [method |-> "PUT", path |-> ":id"],
     [method |-> "POST", path |-> "a/b"]}

\* x-user-id as set by the gateway ("" = header absent)
ChainUserIds == {"", "u1"}

NoChainReq == [pc |-> "idle", ip |-> "", method |-> "", path |-> "", xUserId |-> "",
               status |-> 0, handler |-> "", slot |-> 0, trace |-> <<>>]

ChainQuiet == preq = NoChainReq /\ pserved = 0

ChainStep(label, changes) ==
    [x \in DOMAIN preq |->
        IF x \in DOMAIN changes THEN changes[x]
        ELSE IF x = "trace" THEN Append(preq.trace, label)
        ELSE preq[x]]

\* router.post('/create-post'), router.get('/all-posts'), router.get('/:id'),
\* router.delete('/:id'): the controller a request is routed to, or "none"
RouteOf(method, path) ==
    IF method = "POST" /\ path = "create-post" THEN "createPost"
    ELSE IF method = "GET" /\ path = "all-posts" THEN "getAllPosts"
    ELSE IF method = "GET" /\ path = ":id" THEN "getPost"
    ELSE IF method = "DELETE" /\ path = ":id" THEN "deletePost"
    ELSE "none"

\* ["POST", "DELETE"].includes(req.method)
IsWriteMethod(method) == method \in {"POST", "DELETE"}

\* a request arrives: helmet(), cors(), express.json(), request logging
ChainReceive ==
    /\ preq.pc = "idle" /\ pserved < MaxChainRequests
    /\ \E ip \in Idents, rq \in ChainRequests, xu \in ChainUserIds :
         preq' = [NoChainReq EXCEPT !.pc = "global", !.ip = ip,
                                    !.method = rq.method, !.path = rq.path,
                                    !.xUserId = xu]
    /\ pserved' = pserved + 1
    /\ UNCHANGED <<lcount, ladmitted, notChain>>

\* one limiter middleware of the chain: count the request under the limiter's
\* key, go on when admitted and answer 429 otherwise; when the store rejects
\* the command the counter keeps its value and the request ends there
ChainConsume(n, label, nextPc) ==
    \E store \in CommandOutcomes :
        LET k == LimiterKey(n, preq.ip)
            hits == lcount[k] + 1
            ok == Admits(hits, LimiterCfg[n].points)
        IN  IF store = "fail"
            THEN /\ preq' = ChainStep("storeError",
                                      [pc |-> "done",
                                       status |-> StoreErrorStatus(n)])
                 /\ UNCHANGED <<lcount, ladmitted>>
            ELSE /\ lcount' = [lcount EXCEPT ![k] = hits]
                 /\ ladmitted' = IF ok
                                 THEN [ladmitted EXCEPT ![<<n, preq.ip>>] = @ + 1]
                                 ELSE ladmitted
                 /\ preq' = IF ok THEN ChainStep(label, [pc |-> nextPc])
                            ELSE ChainStep(label, [pc |-> "done", status |-> 429])

\* globalratelimiter.consume(req.ip)
ChainGlobalLimiter ==
    /\ preq.pc = "global"
    /\ ChainConsume("post_global", "globalLimiter", "authenticate")
    /\ UNCHANGED <<pserved, notChain>>

\* app.use('/api/posts', ..., postRoutes): router.use(authenticateRequest)
ChainAuthenticate ==
    /\ preq.pc = "authenticate"
    /\ preq' = IF preq.xUserId = ""
               THEN ChainStep("unauthenticated", [pc |-> "done", status |-> 401])
               ELSE ChainStep("authenticated", [pc |-> "route"])
    /\ UNCHANGED <<lcount, ladmitted, pserved, notChain>>

\* the controller h is entered in slot r for the user of x-user-id and runs
\* up to its first awaited call
ControllerBegin(h, r, u) ==
    IF h = "createPost" THEN CreatePostBegin(r, u)
    ELSE /\ nextId' = nextId
         /\ IF h = "deletePost" THEN DeletePostBegin(r, u)
            ELSE IF h = "getAllPosts" THEN GetAllPostsBegin(r)
            ELSE GetPostBegin(r)

\* the router's routes: a matching route enters its controller, which answers
\* the request; without a match the request leaves the router
ChainRoute ==
    /\ preq.pc = "route"
    /\ LET h == RouteOf(preq.method, preq.path)
       IN  IF h = "none"
           THEN /\ preq' = ChainStep("noRoute", [pc |-> "readLimiter"])
                /\ UNCHANGED <<req, nextId, started>>
           ELSE \E r \in Slots :
                  /\ CanStart(r)
                  /\ ControllerBegin(h, r, preq.xUserId)
                  /\ preq' = ChainStep(h, [pc |-> "controller", handler |-> h,
                                           slot |-> r])
    /\ UNCHANGED <<posts, cache, published, storeVer, ackedVer>>
    /\ UNCHANGED <<lcount, ladmitted, pserved, notChainOrPost>>

\* the controller has answered: its res.status(...).json(...) is the
\* response of the request
ChainRespond ==
    /\ preq.pc = "controller"
    /\ req[preq.slot].pc = "done"
    /\ preq' = ChainStep("respond", [pc |-> "done",
                                     status |-> req[preq.slot].status])
    /\ UNCHANGED <<lcount, ladmitted, pserved, notChain>>

\* app.use("/api/posts", readLimiter)
ChainReadLimiter ==
    /\ preq.pc = "readLimiter"
    /\ ChainConsume("post_read", "readLimiter", "writeGate")
    /\ UNCHANGED <<pserved, notChain>>

\* app.use("/api/posts", ...): writeLimiter for POST and DELETE, next()
\* otherwise; nothing is mounted behind it, so the request ends in 404
ChainWriteGate ==
    /\ preq.pc = "writeGate"
    /\ IF IsWriteMethod(preq.method)
       THEN /\ ChainConsume("post_write", "writeLimiter", "notFound")
       ELSE /\ preq' = ChainStep("next", [pc |-> "notFound"])
            /\ UNCHANGED <<lcount, ladmitted>>
    /\ UNCHANGED <<pserved, notChain>>

ChainNotFound ==
    /\ preq.pc = "notFound"
    /\ preq' = ChainStep("notFound", [pc |-> "done", status |-> 404])
    /\ UNCHANGED <<lcount, ladmitted, pserved, notChain>>

ChainFinish ==
    /\ preq.pc = "done"
    /\ preq' = NoChainReq
    /\ UNCHANGED <<lcount, ladmitted, pserved, notChain>>

ChainNext == \/ ChainReceive \/ ChainGlobalLimiter \/ ChainAuthenticate
             \/ ChainRoute \/ ControllerNext \/ ChainRespond
             \/ ChainReadLimiter \/ ChainWriteGate
             \/ ChainNotFound \/ ChainFinish

----------------------------------------------------------------------------
(* Cache entries and their expiry: the cached reads of the post service and
   of the search service against a clock.  Every read looks its key up,
   computes the result from its store on a miss and writes it with SETEX;
   Redis drops an entry when its expiry time is reached. *)

MaxTicks == 5

MaxStoreChanges == 1

\* one slot is enough for a read to overlap a mutation and for a later read
\* to be served its entry
NumReaders == 1

\* the seconds by which the clock advances in one step
TickSeconds == 100

Readers == 1..NumReaders

\* the second argument of each handler's SETEX, in seconds
CacheTtl == [getAllPosts |-> 300, getPost |-> 3600, searchPostController |-> 60]

CachedReads == DOMAIN CacheTtl

\* the key a handler looks up
LookupKey(op) == IF op = "getAllPosts" THEN "posts:1:10"
                 ELSE IF op = "getPost" THEN "post:1"
                 ELSE "search:hello"

\* the key a handler writes: getPost writes under the null result of its
\* lookup, the others under the key they looked up
SetexKey(op) == IF op = "getPost" THEN "" ELSE LookupKey(op)

\* the store a handler computes its result from
StoreOf(op) == IF op = "searchPostController" THEN "index" ELSE "posts"

\* SETEX key seconds value: the entry lives until now + seconds
ExpiresAt(now, seconds) == now + seconds

NoRead == [pc |-> "idle", op |-> "", ver |-> 0, countVer |-> 0,
           fromCache |-> FALSE, status |-> 0,
           servedVer |-> 0, servedAt |-> 0, writtenAt |-> 0]

NoWrite == [pc |-> "idle", op |-> "", status |-> 0, keys |-> {}, started |-> 0]

NoEntries == [k \in {} |-> 0]

\* the post store holds post 1 or does not; nothing is cached, nothing runs
ExpiryAtRest(present) ==
    /\ clock = 0
    /\ xcache = NoEntries
    /\ xstore = [posts |-> <<>>, index |-> <<>>, post1 |-> present]
    /\ xread = [r \in Readers |-> NoRead]
    /\ xwrite = NoWrite

ExpiryQuiet == ExpiryAtRest(TRUE)

\* catch (e): res.status(500).json({success: false, message: ...})
ReadFailed(r) == [xread EXCEPT ![r].pc = "done", ![r].status = 500]

CachedReadStart(r) ==
    /\ xread[r].pc = "idle"
    /\ \E op \in CachedReads :
         xread' = [xread EXCEPT ![r] = [NoRead EXCEPT !.pc = "get", !.op = op]]
    /\ UNCHANGED <<clock, xcache, xstore, xwrite, notExpiry>>

\* await redis.get(cacheKey); a hit is returned as it is
CachedReadGet(r) ==
    /\ xread[r].pc = "get"
    /\ \E outcome \in CommandOutcomes :
         LET k == LookupKey(xread[r].op)
         IN  xread' = IF outcome = "fail" THEN ReadFailed(r)
                      ELSE [xread EXCEPT ![r] =
                              IF k \in DOMAIN xcache
                              THEN [@ EXCEPT !.pc = "done", !.fromCache = TRUE,
                                             !.status = 200,
                                             !.servedVer = xcache[k].ver,
                                             !.countVer = xcache[k].countVer,
                                             !.servedAt = clock,
                                             !.writtenAt = xcache[k].writtenAt]
                              ELSE [@ EXCEPT !.pc = "find"]]
    /\ UNCHANGED <<clock, xcache, xstore, xwrite, notExpiry>>

\* await Post.find / Post.findById / Search.find: the result reflects the
\* store as it is now; getPost answers 404 when the post is not stored
CachedReadFind(r) ==
    /\ xread[r].pc = "find"
    /\ \E outcome \in OpOutcomes :
         LET op == xread[r].op
         IN  xread' = IF outcome = "fail" THEN ReadFailed(r)
                      ELSE IF op = "getPost" /\ ~xstore.post1
                      THEN [xread EXCEPT ![r].pc = "done", ![r].status = 404]
                      ELSE [xread EXCEPT
                              ![r].pc = IF op = "getAllPosts" THEN "count" ELSE "setex",
                              ![r].ver = Len(xstore[StoreOf(op)])]
    /\ UNCHANGED <<clock, xcache, xstore, xwrite, notExpiry>>

\* getAllPosts: await Post.countDocuments(), the count of the store as it is
\* now
CachedReadCount(r) ==
    /\ xread[r].pc = "count"
    /\ \E outcome \in OpOutcomes :
         xread' = IF outcome = "fail" THEN ReadFailed(r)
                  ELSE [xread EXCEPT ![r].pc = "setex",
                                     ![r].countVer = Len(xstore.posts)]
    /\ UNCHANGED <<clock, xcache, xstore, xwrite, notExpiry>>

\* await redis.setex(key, seconds, JSON.stringify(result)); res.json(result)
CachedReadSetex(r) ==
    /\ xread[r].pc = "setex"
    /\ \E outcome \in CommandOutcomes :
         IF outcome = "fail"
         THEN /\ xread' = ReadFailed(r)
              /\ xcache' = xcache
         ELSE LET op == xread[r].op
                  e == [ver |-> xread[r].ver, countVer |-> xread[r].countVer,
                        writtenAt |-> clock,
                        exp |-> ExpiresAt(clock, CacheTtl[op])]
              IN  /\ xcache' = [k \in (DOMAIN xcache) \cup {SetexKey(op)} |->
                                  IF k = SetexKey(op) THEN e ELSE xcache[k]]
                  /\ xread' = [xread EXCEPT ![r] = [@ EXCEPT !.pc = "done",
                                                            !.status = 200,
                                                            !.servedVer = xread[r].ver,
                                                            !.servedAt = clock,
                                                            !.writtenAt = clock]]
    /\ UNCHANGED <<clock, xstore, xwrite, notExpiry>>

CachedReadFinish(r) ==
    /\ xread[r].pc = "done"
    /\ xread' = [xread EXCEPT ![r] = NoRead]
    /\ UNCHANGED <<clock, xcache, xstore, xwrite, notExpiry>>

\* the writes of the post service: createPost stores post 2, deletePost
\* removes post 1
PostWrites == {"createPost", "deletePost"}

\* the id of the post a write is about
WrittenId(op) == IF op = "createPost" THEN 2 ELSE 1

\* `post:${postId}`
SingleKey(id) == IF id = 1 THEN "post:1" ELSE "post:2"

\* redis.keys("posts:*"): the listing keys stored now
ListingKeys(entries) == (DOMAIN entries) \cap {"posts:1:10"}

\* redis.del: the entries without the keys
Without(entries, keys) == [k \in (DOMAIN entries) \ keys |-> entries[k]]

\* catch (e): res.status(500).json({success: false, message: ...})
WriteFailed == [xwrite EXCEPT !.pc = "done", !.status = 500]

\* the response of a write: 201 for createPost, 200 for deletePost
WriteAnswered == [xwrite EXCEPT !.pc = "done",
                                !.status = IF xwrite.op = "createPost" THEN 201
                                           ELSE 200]

\* createPost with a valid body, or deletePost of post 1 by its owner, is
\* received
WriteStart ==
    /\ xwrite.pc = "idle"
    /\ xwrite.started + Len(xstore.index) < MaxStoreChanges
    /\ \E op \in PostWrites :
         xwrite' = [NoWrite EXCEPT !.pc = "store", !.op = op,
                                   !.started = xwrite.started + 1]
    /\ UNCHANGED <<clock, xcache, xstore, xread, notExpiry>>

\* await newlyCreatedPost.save() / await Post.findOneAndDelete(...): the
\* store changes now; deletePost answers 404 when the post is not stored
StoreMutate ==
    /\ xwrite.pc = "store"
    /\ \E outcome \in OpOutcomes :
         IF outcome = "fail"
         THEN /\ xwrite' = WriteFailed
              /\ xstore' = xstore
         ELSE IF xwrite.op = "deletePost" /\ ~xstore.post1
         THEN /\ xwrite' = [xwrite EXCEPT !.pc = "done", !.status = 404]
              /\ xstore' = xstore
         ELSE /\ xwrite' = [xwrite EXCEPT !.pc = "publish"]
              /\ xstore' = [xstore EXCEPT
                              !.posts = Append(@, clock),
                              !.post1 = IF xwrite.op = "deletePost" THEN FALSE ELSE @]
    /\ UNCHANGED <<clock, xcache, xread, notExpiry>>

\* await publishEvent(...); a rejection lands in catch (e)
WritePublish ==
    /\ xwrite.pc = "publish"
    /\ \E outcome \in PublishOutcomes :
         xwrite' = IF outcome = "ok" THEN [xwrite EXCEPT !.pc = "delSingle"]
                   ELSE WriteFailed
    /\ UNCHANGED <<clock, xcache, xstore, xread, notExpiry>>

\* invalidatePostCache: await req.redisClient.del(`post:${postId}`)
WriteDelSingle ==
    /\ xwrite.pc = "delSingle"
    /\ \E outcome \in CommandOutcomes :
         IF outcome = "fail"
         THEN /\ xwrite' = WriteFailed
              /\ xcache' = xcache
         ELSE /\ xwrite' = [xwrite EXCEPT !.pc = "keys"]
              /\ xcache' = Without(xcache, {SingleKey(WrittenId(xwrite.op))})
    /\ UNCHANGED <<clock, xstore, xread, notExpiry>>

\* invalidatePostCache: const keys = await req.redisClient.keys("posts:*");
\* with no key the handler answers
WriteKeys ==
    /\ xwrite.pc = "keys"
    /\ \E outcome \in CommandOutcomes :
         xwrite' = IF outcome = "fail" THEN WriteFailed
                   ELSE IF ListingKeys(xcache) = {} THEN WriteAnswered
                   ELSE [xwrite EXCEPT !.pc = "delKeys",
                                       !.keys = ListingKeys(xcache)]
    /\ UNCHANGED <<clock, xcache, xstore, xread, notExpiry>>

\* invalidatePostCache: await req.redisClient.del(keys), then the response
WriteDelKeys ==
    /\ xwrite.pc = "delKeys"
    /\ \E outcome \in CommandOutcomes :
         IF outcome = "fail"
         THEN /\ xwrite' = WriteFailed
              /\ xcache' = xcache
         ELSE /\ xwrite' = WriteAnswered
              /\ xcache' = Without(xcache, xwrite.keys)
    /\ UNCHANGED <<clock, xstore, xread, notExpiry>>

WriteFinish ==
    /\ xwrite.pc = "done"
    /\ xwrite' = [NoWrite EXCEPT !.started = xwrite.started]
    /\ UNCHANGED <<clock, xcache, xstore, xread, notExpiry>>

\* the search service indexes or removes a post: one write to its index,
\* and no cache entry is removed
IndexMutate ==
    /\ xwrite.started + Len(xstore.index) < MaxStoreChanges
    /\ xstore' = [xstore EXCEPT !.index = Append(@, clock)]
    /\ UNCHANGED <<clock, xcache, xread, xwrite, notExpiry>>

\* time passes; Redis drops the entries whose expiry time has come
ClockTick ==
    /\ clock < MaxTicks * TickSeconds
    /\ clock' = clock + TickSeconds
    /\ xcache' = [k \in {x \in DOMAIN xcache : xcache[x].exp > clock'} |-> xcache[k]]
    /\ UNCHANGED <<xstore, xread, xwrite, notExpiry>>

ExpiryNext ==
    \/ \E r \in Readers : \/ CachedReadStart(r) \/ CachedReadGet(r)
                          \/ CachedReadFind(r) \/ CachedReadCount(r)
                          \/ CachedReadSetex(r) \/ CachedReadFinish(r)
    \/ WriteStart \/ StoreMutate \/ WritePublish \/ WriteDelSingle
    \/ WriteKeys \/ WriteDelKeys \/ WriteFinish
    \/ IndexMutate
    \/ ClockTick

----------------------------------------------------------------------------
(* Search service and media service: startServer.  The process connects to
   the broker, registers its subscriptions one after the other and then
   listens; a rejection of any of these awaits lands in catch, which ends the
   process. *)

MaxBootRequests == 2

BootServices == {"search", "media"}

\* the consumeEvent calls of each startServer, in their order
Subscriptions == [search |-> <<"post.created", "post.deleted">>,
                  media  |-> <<"post.deleted">>]

NoExit == 0 - 1

\* the process at the call of startServer()
NoBoot == [pc |-> "connect", connected |-> FALSE, subs |-> <<>>,
           listening |-> FALSE, failed |-> FALSE, exitCode |-> NoExit,
           accepted |-> 0, refused |-> 0]

BootQuiet == boot = [s \in BootServices |-> NoBoot]

\* a start that listens as soon as one subscription is registered
ListenAfterFirst(s, subs) == "listen"

\* after a consumeEvent has resolved: the next consumeEvent, or app.listen
AfterSubscribe(s, subs) ==
    IF Len(subs) = Len(Subscriptions[s]) THEN "listen" ELSE "subscribe"

\* await connectToRabbitMQ()
BootConnect(s) ==
    /\ boot[s].pc = "connect"
    /\ \E outcome \in OpOutcomes :
         boot' = [boot EXCEPT ![s] =
                    IF outcome = "ok"
                    THEN [@ EXCEPT !.pc = "subscribe", !.connected = TRUE]
                    ELSE [@ EXCEPT !.pc = "catch", !.failed = TRUE]]
    /\ UNCHANGED notBoot

\* await consumeEvent(routingKey, handler)
BootSubscribe(s) ==
    /\ boot[s].pc = "subscribe"
    /\ \E outcome \in OpOutcomes :
         boot' = [boot EXCEPT ![s] =
                    IF outcome = "ok"
                    THEN LET subs == Append(boot[s].subs,
                                            Subscriptions[s][Len(boot[s].subs) + 1])
                         IN  [@ EXCEPT !.subs = subs,
                                       !.pc = AfterSubscribe(s, subs)]
                    ELSE [@ EXCEPT !.pc = "catch", !.failed = TRUE]]
    /\ UNCHANGED notBoot

\* app.listen(PORT, ...)
BootListen(s) ==
    /\ boot[s].pc = "listen"
    /\ boot' = [boot EXCEPT ![s] = [@ EXCEPT !.pc = "running", !.listening = TRUE]]
    /\ UNCHANGED notBoot

\* catch (e) { logger.error(...); process.exit(1) }
BootCatch(s) ==
    /\ boot[s].pc = "catch"
    /\ boot' = [boot EXCEPT ![s] = [@ EXCEPT !.pc = "exited", !.exitCode = 1,
                                             !.listening = FALSE]]
    /\ UNCHANGED notBoot

\* a client opens a connection to the service's port: accepted when the
\* process listens, refused otherwise
BootRequest(s) ==
    /\ boot[s].accepted + boot[s].refused < MaxBootRequests
    /\ boot' = [boot EXCEPT ![s] =
                  IF boot[s].listening
                  THEN [@ EXCEPT !.accepted = boot[s].accepted + 1]
                  ELSE [@ EXCEPT !.refused = boot[s].refused + 1]]
    /\ UNCHANGED notBoot

BootStep(s) == BootConnect(s) \/ BootSubscribe(s) \/ BootListen(s) \/ BootCatch(s)

BootNext == \E s \in BootServices : BootStep(s) \/ BootRequest(s)

----------------------------------------------------------------------------
(* Services: one limiter middleware of the search, media or identity service *)

\* the limiters of the three services that are applied by a middleware
\* written around RateLimiterRedis.consume
WareLimiters == {"search_global", "search_user", "media_global", "media_upload",
                 "identity_global"}

\* the limiters keyed by the x-user-id header; the others are keyed by req.ip
UserKeyed == {"search_user", "media_upload"}

NoWareReq == [pc |-> "idle", limiter |-> "", ident |-> "", outcome |-> "",
              hits |-> 0, status |-> 0, passed |-> FALSE]

WareQuiet == wreq = NoWareReq

\* a request reaches the middleware; the per-user middlewares answer 401
\* when the x-user-id header is missing
WareReceive ==
    /\ wreq.pc = "idle"
    /\ \E n \in lactive \cap WareLimiters, ident \in Idents \cup {""} :
         /\ ident = "" => n \in UserKeyed
         /\ wreq' = IF ident = ""
                    THEN [NoWareReq EXCEPT !.pc = "done", !.limiter = n,
                                           !.outcome = "noUserId", !.status = 401]
                    ELSE [NoWareReq EXCEPT !.pc = "consume", !.limiter = n,
                                           !.ident = ident]
    /\ UNCHANGED <<lcount, ladmitted, notWare>>

\* catch { ...; res.status(429).json(...) }: every rejection of consume
\* gets the same answer
CatchStatus(outcome) == 429

\* await limiter.consume(key): resolves when the counter, after its
\* increment, is within the points; rejects with the limiter's result when it
\* is not, and with the store's error when Redis fails
WareConsume ==
    /\ wreq.pc = "consume"
    /\ \E store \in OpOutcomes :
         LET n == wreq.limiter
             k == LimiterKey(n, wreq.ident)
             hits == lcount[k] + 1
             ok == Admits(hits, LimiterCfg[n].points)
         IN  IF store = "fail"
             THEN /\ wreq' = [wreq EXCEPT !.pc = "done", !.outcome = "storeError",
                                          !.status = CatchStatus("storeError")]
                  /\ UNCHANGED <<lcount, ladmitted>>
             ELSE /\ lcount[k] < HitsCap(n, wreq.ident)
                  /\ lcount' = [lcount EXCEPT ![k] = hits]
                  /\ ladmitted' = IF ok
                                  THEN [ladmitted EXCEPT ![<<n, wreq.ident>>] = @ + 1]
                                  ELSE ladmitted
                  /\ wreq' = IF ok
                             THEN [wreq EXCEPT !.pc = "done", !.outcome = "resolved",
                                              !.hits = hits, !.passed = TRUE]
                             ELSE [wreq EXCEPT !.pc = "done", !.outcome = "exhausted",
                                              !.hits = hits,
                                              !.status = CatchStatus("exhausted")]
    /\ UNCHANGED notWare

\* the response was sent, or next() handed the request on
WareFinish ==
    /\ wreq.pc = "done"
    /\ wreq' = NoWareReq
    /\ UNCHANGED <<lcount, ladmitted, notWare>>

WareNext == WareReceive \/ WareConsume \/ WareFinish

----------------------------------------------------------------------------
(* Identity service: registerUser *)

RegNames == {"alice", "bob"}

RegEmails == {"a@x.io", "b@x.io"}

RegPasswords == {"pw"}

\* new User(...): the _id of the next document
NewUserId(users) == UserIdPool[Cardinality(users) + 1]

RegQuiet == iusers = {}

\* User.findOne({ $or: [{ email }, { username }] })
UsersWith(users, username, email) ==
    {u \in users : u.email = email \/ u.username = username}

\* the unique index of userSchema: email has unique: true, username has none;
\* the documents that make user.save() fail with a duplicate key error
DuplicateKey(users, username, email) == {u \in users : u.email = email}

\* registerUser: validateRegistration(req.body); 400 on a validation error
RegStart(s) ==
    /\ IdCanStart(s)
    /\ \E valid \in BOOLEAN, un \in RegNames, em \in RegEmails,
          pw \in RegPasswords :
         icall' = [icall EXCEPT ![s] =
                     IF valid
                     THEN [NoIdCall EXCEPT !.pc = "regFindOne", !.op = "register",
                                           !.username = un, !.email = em,
                                           !.password = pw,
                                           !.existed =
                                               UsersWith(iusers, un, em) # {}]
                     ELSE [NoIdCall EXCEPT !.pc = "done", !.op = "register",
                                           !.status = 400]]
    /\ ihist' = [ihist EXCEPT !.calls = @ + 1]
    /\ UNCHANGED <<iusers, itokens, inext, notRegister>>

\* const userExists = await User.findOne(...); 400 'User already exists'
RegFindOne(s) ==
    /\ icall[s].pc = "regFindOne"
    /\ \E outcome \in OpOutcomes :
         icall' = IF outcome = "fail" THEN IdFailed(s, 500)
                  ELSE IF UsersWith(iusers, icall[s].username, icall[s].email) # {}
                  THEN [icall EXCEPT ![s].pc = "done", ![s].status = 400]
                  ELSE [icall EXCEPT ![s].pc = "regHash"]
    /\ UNCHANGED <<iusers, itokens, inext, ihist, notRegister>>

\* new User(...) and the pre('save') hook of await user.save():
\* this.password = await argon2.hash(this.password); a rejection of the hash
\* leaves registerUser through its catch block
RegHash(s) ==
    /\ icall[s].pc = "regHash"
    /\ \E outcome \in OpOutcomes :
         icall' = IF outcome = "fail" THEN IdFailed(s, 500)
                  ELSE [icall EXCEPT ![s].pc = "regSave",
                                     ![s].password = HashPassword(@)]
    /\ UNCHANGED <<iusers, itokens, inext, ihist, notRegister>>

\* await user.save() after its hook: the insert of the document, rejected by
\* the store or by the unique index
RegSave(s) ==
    /\ icall[s].pc = "regSave"
    /\ Cardinality(iusers) < Len(UserIdPool)
    /\ \E outcome \in OpOutcomes :
         IF outcome = "fail"
            \/ DuplicateKey(iusers, icall[s].username, icall[s].email) # {}
         THEN /\ icall' = IdFailed(s, 500)
              /\ iusers' = iusers
         ELSE /\ iusers' = iusers \cup {[id |-> NewUserId(iusers),
                                         username |-> icall[s].username,
                                         email |-> icall[s].email,
                                         password |-> icall[s].password]}
              /\ icall' = [icall EXCEPT ![s].pc = "regGenerate",
                                        ![s].user = NewUserId(iusers)]
    /\ UNCHANGED <<itokens, inext, ihist, notRegister>>

\* await generateTokens(user): RefreshToken.create({token, user: user._id,
\* expiresAt}), then the 201 response with the tokens
RegGenerate(s) ==
    /\ icall[s].pc = "regGenerate"
    /\ inext <= MaxTokens
    /\ \E outcome \in OpOutcomes :
         IF outcome = "fail"
         THEN /\ icall' = IdFailed(s, 500)
              /\ UNCHANGED <<itokens, inext, ihist>>
         ELSE LET t == GenerateToken(inext, 0)
              IN  /\ itokens' = itokens \cup {[token |-> t, user |-> icall[s].user]}
                  /\ inext' = inext + 1
                  /\ icall' = [icall EXCEPT ![s].pc = "done", ![s].status = 201,
                                            ![s].newToken = t]
                  /\ ihist' = [ihist EXCEPT !.given = @ \cup {t}]
    /\ UNCHANGED <<iusers, notRegister>>

RegisterNext ==
    \E s \in IdSlots :
        RegStart(s) \/ RegFindOne(s) \/ RegHash(s) \/ RegSave(s) \/ RegGenerate(s)

\* the subsystems added last, at rest
LateQuiet == BootQuiet /\ WareQuiet /\ RegQuiet

----------------------------------------------------------------------------
(* Specifications: one per subsystem, the others at rest *)

\* the post service
Init == PostInit /\ LimInitFor({}) /\ GwIdle /\ MediaQuiet /\ SearchQuiet
        /\ IdentityInit /\ ExpiryQuiet /\ ChainQuiet /\ LateQuiet

Spec == Init /\ [][Next]_vars

\* one limiter instance under load from any number of replicas
LimiterInit == /\ \E n \in LimiterNames : LimInitFor({n})
               /\ PostInit /\ GwIdle /\ MediaQuiet /\ SearchQuiet /\ IdentityInit
               /\ ExpiryQuiet /\ ChainQuiet /\ LateQuiet

LimiterSpec == LimiterInit /\ [][LimiterNext]_vars

\* the gateway with its global limiter
GatewayInit == /\ LimInitFor({"gateway_global"})
               /\ greq = NoGwReq /\ genv \in NodeEnvs
               /\ PostInit /\ MediaQuiet /\ SearchQuiet /\ IdentityInit /\ ExpiryQuiet /\ ChainQuiet /\ LateQuiet

GatewaySpec == GatewayInit /\ [][GatewayNext]_vars

\* the media service's consumer
MediaWorkerInit == /\ MediaInit
                   /\ PostInit /\ LimInitFor({}) /\ GwIdle /\ SearchQuiet
                   /\ IdentityInit /\ ExpiryQuiet /\ ChainQuiet /\ LateQuiet

MediaSpec == MediaWorkerInit /\ [][MediaServiceNext]_vars

\* the same, with the broker delivering and the handler running to its end
MediaLiveSpec == MediaWorkerInit /\ [][MediaServiceNext]_vars /\ WF_vars(MediaNext)

\* the media service's consumer given the same message twice
MediaRedeliveryInit == /\ MediaTwiceInit
                       /\ PostInit /\ LimInitFor({}) /\ GwIdle /\ SearchQuiet
                       /\ IdentityInit /\ ExpiryQuiet /\ ChainQuiet /\ LateQuiet

MediaTwiceSpec == MediaRedeliveryInit /\ [][MediaServiceNext]_vars

\* the search service's consumers
SearchIndexerInit == /\ SearchInit
                     /\ PostInit /\ LimInitFor({}) /\ GwIdle /\ MediaQuiet
                     /\ IdentityInit /\ ExpiryQuiet /\ ChainQuiet /\ LateQuiet

SearchSpec == SearchIndexerInit /\ [][SearchNext]_vars

\* the search service: consumers and search endpoint
SearchServiceSpec == SearchIndexerInit /\ [][SearchServiceNext]_vars

\* the identity service
IdentityServiceInit == /\ IdentityInit /\ iusers = KnownUsers
                       /\ PostInit /\ LimInitFor({}) /\ GwIdle /\ MediaQuiet
                       /\ SearchQuiet /\ ExpiryQuiet /\ ChainQuiet
                       /\ BootQuiet /\ WareQuiet

IdentitySpec == IdentityServiceInit /\ [][IdentityNext]_vars

\* the cached reads against the clock
ExpiryInit == /\ \E present \in BOOLEAN : ExpiryAtRest(present)
              /\ ChainQuiet /\ LateQuiet
              /\ PostInit /\ LimInitFor({}) /\ GwIdle /\ MediaQuiet /\ SearchQuiet
              /\ IdentityInit

ExpirySpec == ExpiryInit /\ [][ExpiryNext]_vars

\* the post service's middleware chain with its three limiters
ChainInit == /\ LimInitFor({"post_global", "post_read", "post_write"})
             /\ ChainQuiet
             /\ PostInit /\ GwIdle /\ MediaQuiet /\ SearchQuiet /\ IdentityInit
             /\ ExpiryQuiet /\ LateQuiet

ChainSpec == ChainInit /\ [][ChainNext]_vars

\* two limiter instances against the one Redis: a pair living in one
\* service, a pair from two services, and a pair with prefixes of their own
SharedStorePairs == {{"identity_sensitive", "identity_refresh"},
                     {"post_global", "identity_global"},
                     {"media_upload", "identity_global"}}

SharedStoreInit == /\ \E pair \in SharedStorePairs : LimInitFor(pair)
                   /\ PostInit /\ GwIdle /\ MediaQuiet /\ SearchQuiet /\ IdentityInit
                   /\ ExpiryQuiet /\ ChainQuiet /\ LateQuiet

SharedStoreSpec == SharedStoreInit /\ [][LimiterNext]_vars

\* the start of the search service and of the media service; a process that
\* can take its next step does take it
BootInit == /\ BootQuiet /\ WareQuiet /\ RegQuiet
            /\ PostInit /\ LimInitFor({}) /\ GwIdle /\ MediaQuiet /\ SearchQuiet
            /\ IdentityInit /\ ExpiryQuiet /\ ChainQuiet

BootSpec == /\ BootInit /\ [][BootNext]_vars
            /\ \A s \in BootServices : WF_vars(BootStep(s))

\* the identity service's registerUser calls
RegisterInit == /\ IdentityInit /\ RegQuiet /\ BootQuiet /\ WareQuiet
                /\ PostInit /\ LimInitFor({}) /\ GwIdle /\ MediaQuiet
                /\ SearchQuiet /\ ExpiryQuiet /\ ChainQuiet

RegisterSpec == RegisterInit /\ [][RegisterNext]_vars

\* one limiter middleware of the search, media or identity service
WareInit == /\ \E n \in WareLimiters : LimInitFor({n})
            /\ WareQuiet /\ BootQuiet /\ RegQuiet
            /\ PostInit /\ GwIdle /\ MediaQuiet /\ SearchQuiet /\ IdentityInit
            /\ ExpiryQuiet /\ ChainQuiet

WareSpec == WareInit /\ [][WareNext]_vars

----------------------------------------------------------------------------
(* Properties of the post service *)

IsWrite(r) == req[r].op \in {"createPost", "deletePost"}

Succeeded(r) == req[r].pc = "done" /\ req[r].status \in {200, 201}

Has(t, label) == \E i \in 1..Len(t) : t[i] = label

Pos(t, label) == CHOOSE i \in 1..Len(t) : t[i] = label

Before(t, a, b) == Has(t, a) /\ Has(t, b) /\ Pos(t, a) < Pos(t, b)

\* C1: a read that starts after a write's success response was sent never
\* returns a cached body computed from the store state before that write
C1_NoStaleReadAfterAck ==
    \A r \in Slots :
        (req[r].pc = "done" /\ req[r].fromCache)
            => req[r].servedVer >= req[r].startAcked

\* C2: in every createPost or deletePost that answers 201 / 200, post:{id} of
\* the mutated id and every posts:* key present in the cache at the scan are
\* deleted after the store write and before the response is sent
C2_InvalidationBetweenWriteAndAck ==
    \A r \in Slots :
        (IsWrite(r) /\ Succeeded(r)) =>
            LET t == req[r].trace
            IN  /\ Before(t, "storeWrite", "delSingle")
                /\ Before(t, "delSingle", "respond")
                /\ req[r].deletedSingle = {<<"post", req[r].id, 0>>}
                /\ Before(t, "storeWrite", "keys")
                /\ Before(t, "keys", "respond")
                /\ req[r].scanned \subseteq req[r].deleted
                /\ req[r].scanned # {} =>
                       Before(t, "keys", "delKeys") /\ Before(t, "delKeys", "respond")

\* a createPost answered 201 after deleting two cached listing pages
C2_Witness ==
    \E r \in Slots :
        /\ req[r].op = "createPost" /\ Succeeded(r)
        /\ Cardinality(req[r].deleted) >= 2

\* C3: when publishing the event fails after the store write succeeded, the
\* write is kept and the caller still receives the success response
C3_PublishFailureNonFatal ==
    \A r \in Slots :
        (IsWrite(r) /\ req[r].pc = "done" /\ req[r].pubFailed)
            => req[r].myVer > 0 /\ req[r].status \in {200, 201}

\* a deletePost about to run its findOneAndDelete
AtFindOneAndDelete(r) == req[r].op = "deletePost" /\ req[r].pc = "findOneAndDelete"

IsAuthorOf(r, q) == q.id = req[r].id /\ q.user = req[r].user

\* what a deletePost answered 200 has done
DeleteSucceeded(r) ==
    /\ \A q \in posts : q.id # req[r].id
    /\ \E e \in published :
         e.type = "post.deleted" /\ e.postId = req[r].id /\ e.userId = req[r].user

\* the store rejected the findOneAndDelete of r: the handler's catch answers
\* 500 and nothing was changed
DeleteRejected(r) ==
    /\ posts' = posts /\ cache' = cache /\ published' = published
    /\ req'[r].pc = "done" /\ req'[r].status = 500

\* the step of a deletePost at the store, and every step that removes a post
DeleteStep ==
    /\ \A r \in Slots :
         (AtFindOneAndDelete(r) /\ req'[r] # req[r]) =>
             \/ DeleteRejected(r)
             \/ IF \E q \in posts : IsAuthorOf(r, q)
                THEN /\ posts' = {q \in posts : ~IsAuthorOf(r, q)}
                     /\ req'[r].pc = "publish"
                ELSE /\ posts' = posts /\ cache' = cache /\ published' = published
                     /\ req'[r].pc = "done" /\ req'[r].status = 404
    /\ \A q \in posts \ posts' :
         \E r \in Slots : AtFindOneAndDelete(r) /\ IsAuthorOf(r, q)
                           /\ req'[r] # req[r]

\* C16: a post leaves the store only in a deletePost called by its author;
\* a deletePost by anyone else whose store command is answered gets 404,
\* changes neither the store nor the cache and publishes nothing; a
\* deletePost by the author whose store command is answered removes the
\* post, and when it answers 200 post.deleted was published for it; a store
\* command that is rejected changes nothing and ends in 500
C16_OnlyAuthorDeletes ==
    /\ [][DeleteStep]_vars
    /\ [](\A r \in Slots :
            (req[r].op = "deletePost" /\ Succeeded(r)) => DeleteSucceeded(r))

\* a deletePost by another user was answered 404 with the post still stored
\* and a listing still cached
C16_Witness ==
    \E r \in Slots :
        /\ req[r].op = "deletePost" /\ req[r].pc = "done" /\ req[r].status = 404
        /\ \E q \in posts : q.id = req[r].id /\ q.user # req[r].user
        /\ DOMAIN cache # {}

\* the step in which the listing deletion of r's invalidation takes effect
ListingDeletionStep(r) == req[r].pc = "delKeys" /\ req'[r].pc = "respond"

\* C22: the listing invalidation of the write path is one atomic operation:
\* once its deletion has taken effect no posts:{page}:{limit} entry written
\* before is left in the cache
C22_ListingInvalidationAtomic ==
    [][\A r \in Slots : ListingDeletionStep(r) => ListKeysOf(cache') = {}]_vars

\* the step in which a getPost that missed the cache writes the post it found
GetPostCacheWriteStep(r) ==
    /\ req[r].op = "getPost" /\ req[r].pc = "setex"
    /\ req'[r].pc = "done" /\ req'[r].status = 200

\* C23: after a getPost cache miss for an existing post id the cache holds
\* that post under post:{id} and under no other key, so that the next getPost
\* for the id is served from the cache
C23_SinglePostKeyedById ==
    [][\A r \in Slots :
          GetPostCacheWriteStep(r) =>
              /\ PostKey(req[r].id) \in DOMAIN cache'
              /\ (DOMAIN cache') \ (DOMAIN cache) \subseteq {PostKey(req[r].id)}]_vars

\* a write whose store change happened and whose handler has finished
ChangedAndFinished(r) == IsWrite(r) /\ req[r].pc = "done" /\ req[r].myVer > 0

\* the cache entries the invalidation of r is to remove that were computed
\* before r's store change
ComputedBefore(r) ==
    {k \in ListKeysOf(cache) \cup ({PostKey(req[r].id)} \cap DOMAIN cache) :
         cache[k].ver < req[r].myVer}

\* C28: every store change made by createPost or deletePost is followed by
\* the deletion of post:{id} and of the posts:* keys before the handler
\* finishes, also when publishing the event failed; once the handler has
\* finished no entry computed before the change is left in the cache
C28_MutationFollowedByInvalidation ==
    \A r \in Slots :
        ChangedAndFinished(r) =>
            /\ Before(req[r].trace, "storeWrite", "delSingle")
            /\ Before(req[r].trace, "storeWrite", "keys")
            /\ ComputedBefore(r) = {}

Count(t, label) == Cardinality({i \in 1..Len(t) : t[i] = label})

EventTypeOf(op) == IF op = "createPost" THEN "post.created" ELSE "post.deleted"

\* every event entering the broker is the one event of a handler standing at
\* its publishEvent call after its store write
PublishStep ==
    \A e \in published' \ published :
        \E r \in Slots :
            /\ IsWrite(r) /\ req[r].pc = "publish" /\ req'[r].pc = "delSingle"
            /\ Has(req[r].trace, "storeWrite") /\ req[r].myVer > 0
            /\ ~Has(req[r].trace, "publish")
            /\ e.type = EventTypeOf(req[r].op)
            /\ e.postId = req[r].id /\ e.userId = req[r].user
            /\ published' \ published = {e}
            /\ req[r].op = "deletePost" => \A q \in posts : q.id # req[r].id

\* C29: an event is published only after the store write succeeded: no
\* post.created for a createPost that failed validation or whose save failed,
\* no post.deleted for a deletePost that removed no post, and at most one
\* event for each successful write
C29_EventOnlyAfterStoreWrite ==
    /\ [][PublishStep]_vars
    /\ [](\A r \in Slots :
            /\ Count(req[r].trace, "publish") <= 1
            /\ Has(req[r].trace, "publish") =>
                   Before(req[r].trace, "storeWrite", "publish")
            /\ (\/ ~req[r].valid
                \/ Has(req[r].trace, "saveFailed")
                \/ Has(req[r].trace, "findOneAndDeleteFailed")
                \/ Has(req[r].trace, "notFound")) =>
                   /\ ~Has(req[r].trace, "publish")
                   /\ req[r].pc = "done" /\ req[r].status \in {400, 404, 500})

\* a deletePost that removed nothing was answered 404 and a createPost whose
\* save failed was answered 500, while the broker holds the one event of an
\* earlier createPost
C29_Witness ==
    /\ \E r \in Slots :
         req[r].op = "deletePost" /\ req[r].pc = "done" /\ req[r].status = 404
    /\ \E r \in Slots :
         req[r].op = "createPost" /\ Has(req[r].trace, "saveFailed")
    /\ Cardinality(published) = 1
    /\ \A e \in published : e.type = "post.created"

IsCachedRead(r) == req[r].op \in {"getAllPosts", "getPost"}

\* the key a getAllPosts or getPost request looks up
ReadKey(r) == IF req[r].op = "getAllPosts" THEN ListKey(req[r].page, req[r].limit)
              ELSE PostKey(req[r].id)

\* a request answered at its cache lookup was served from the cache, with
\* the body held by the entry under its key, unless the lookup was rejected
CacheHitStep(r) ==
    (req[r].pc = "cacheGet" /\ req'[r].pc = "done") =>
        \/ req'[r].status = 500 /\ ~req'[r].fromCache
        \/ /\ req'[r].fromCache /\ ReadKey(r) \in DOMAIN cache
           /\ req'[r].body = cache[ReadKey(r)].body

\* a cache miss that writes the entry under its key answers with the body it
\* wrote
CachePopulateStep(r) ==
    (/\ req[r].pc = "setex" /\ req'[r].pc = "done"
     /\ ReadKey(r) \in DOMAIN cache'
     /\ (ReadKey(r) \notin DOMAIN cache \/ cache'[ReadKey(r)] # cache[ReadKey(r)]))
        => cache'[ReadKey(r)].body = req'[r].body

\* C37: for getAllPosts and getPost, the body of a response served from the
\* cache is the body that the cache-miss request which wrote that entry
\* returned, for the same page and limit or the same post id
C37_CachedBodyEqualsMissBody ==
    [][\A r \in Slots :
          IsCachedRead(r) => CacheHitStep(r) /\ CachePopulateStep(r)]_vars

\* a getAllPosts request was served a listing with a post in it from the
\* cache
C37_Witness ==
    \E r \in Slots :
        /\ req[r].op = "getAllPosts" /\ req[r].pc = "done" /\ req[r].fromCache
        /\ req[r].body.shape = "listing" /\ Len(req[r].body.posts) > 0

----------------------------------------------------------------------------
(* Properties of the rate limiters *)

\* C4: for every limiter and identity, under any interleaving of consume
\* calls from the replicas, the requests admitted within one window never
\* exceed the limiter's configured points
C4_NeverOverAdmits ==
    \A n \in LimiterNames, ident \in Idents :
        ladmitted[<<n, ident>>] <= LimiterCfg[n].points

\* a limiter has admitted its full budget and rejected a further request while
\* another replica's call was in flight
C4_Witness ==
    \E n \in lactive :
        /\ ladmitted[<<n, "ip1">>] = LimiterCfg[n].points
        /\ <<n, "ip1", "now">> \in lrejected
        /\ \E p \in Replicas : lcall[p].pc = "pending"
                               /\ lcall[p].outcome = "exhausted"

\* the step is a consume call made by replica p
ConsumeStep(p) == lcall[p].pc = "idle" /\ lcall'[p].pc = "pending"

\* the step is a consume call of replica p that the store replied to
CountedStep(p) == ConsumeStep(p) /\ lcall'[p].outcome # "storeError"

\* the step is the expiry of the counter under key k
ExpireStep(k) == lcount[k] > 0 /\ lcount'[k] = 0

\* the budget a limiter has left for an identity in the current window
RemainingBudget(n, ident) == LimiterCfg[n].points - ladmitted[<<n, ident>>]

\* a consume call of an identity rejected earlier in the window is rejected,
\* and one made on a fresh window is admitted when the store replies to it
RejectedUntilRollover ==
    \A p \in Replicas :
        ConsumeStep(p) =>
            LET c == lcall'[p]
            IN  /\ <<c.name, c.ident, "now">> \in lrejected => ~c.allowed
                /\ (CountedStep(p) /\ lcount[LimiterKey(c.name, c.ident)] = 0)
                       => c.allowed

\* the budget grows only when the counter expires, which ends the window:
\* it is then full again and nothing of the old window's rejections is left
RestoredOnlyByRollover ==
    \A n \in lactive, ident \in Idents :
        RemainingBudget(n, ident)' > RemainingBudget(n, ident) =>
            /\ ExpireStep(LimiterKey(n, ident))
            /\ lrolls' = lrolls + 1
            /\ RemainingBudget(n, ident)' = LimiterCfg[n].points
            /\ <<n, ident, "now">> \notin lrejected'

\* C20: once a limiter has rejected a request of an identity for exceeding
\* its budget it rejects every further request of that identity in the same
\* window, and it admits a request made after the window has rolled over
\* whose counter command the store replies to; the remaining budget never
\* goes below zero and is restored only by the rollover, once per window
C20_RejectsUntilRollover ==
    /\ [][RejectedUntilRollover /\ RestoredOnlyByRollover]_vars
    /\ [](\A n \in lactive, ident \in Idents : RemainingBudget(n, ident) >= 0)

\* an identity that was rejected before its counter expired has been
\* admitted again in the new window
C20_Witness ==
    \E n \in lactive, p \in Replicas :
        /\ <<n, "ip1", "before">> \in lrejected
        /\ lcall[p].pc = "pending" /\ lcall[p].name = n /\ lcall[p].ident = "ip1"
        /\ lcall[p].allowed
        /\ RemainingBudget(n, "ip1") = LimiterCfg[n].points - 1

\* the limiters of the global tier whose ceiling is 100 requests
GlobalTier100 == {n \in {"gateway_global", "search_global", "media_global"} :
                    LimiterCfg[n].points = 100}

\* C21: with no other traffic from the same IP, the n-th request of a window
\* counted by a global limiter with ceiling 100 is admitted for every
\* n <= 100 and rejected (429) for n = 101
C21_HundredAdmittedNextRejected ==
    [][\A p \in Replicas :
          (CountedStep(p) /\ lcall'[p].name \in GlobalTier100) =>
              LET c == lcall'[p]
                  n == lcount[LimiterKey(c.name, c.ident)] + 1
              IN  /\ n <= 100 => c.allowed
                  /\ n = 101 => ~c.allowed /\ c.status = 429]_vars

\* the 101st request of ip1 against the search service's global limiter has
\* been rejected after 100 were admitted
C21_Witness ==
    \E p \in Replicas :
        /\ lcall[p].pc = "pending" /\ lcall[p].name = "search_global"
        /\ lcall[p].ident = "ip1" /\ lcall[p].outcome = "exhausted"
        /\ lcall[p].status = 429
        /\ lcount[LimiterKey("search_global", "ip1")] = 101
        /\ ladmitted[<<"search_global", "ip1">>] = 100

\* C26: buckets are keyed by (limiter, identity): a consume call on one
\* limiter instance leaves the counter, and with it the remaining budget and
\* the next admission decision, of every other instance for that identity
\* unchanged
C26_BucketsKeyedByTierAndIdentity ==
    [][\A p \in Replicas :
          ConsumeStep(p) =>
              \A m \in lactive \ {lcall'[p].name} :
                  lcount'[LimiterKey(m, lcall'[p].ident)]
                      = lcount[LimiterKey(m, lcall'[p].ident)]]_vars

----------------------------------------------------------------------------
(* Properties of the API gateway *)

GwTokenVerifies(r) == r.auth.token.present /\ r.auth.token.ok

\* a request to a protected prefix without a token that verifies
GwUnauthenticated(r) ==
    GwProtected(GwUpstreamOf(r.url)) /\ ~GwTokenVerifies(r)

\* the statement of C5 as written: every such request is answered 401
C5_UnauthenticatedAnswered401 ==
    (greq.pc = "done" /\ GwUnauthenticated(greq))
        => greq.status = 401 /\ ~greq.fwd.sent

\* C5: a request to /v1/posts, /v1/media or /v1/search whose Authorization
\* header carries no bearer token, or a token that fails verification, is
\* never forwarded to an upstream; it is answered 401 when the per-IP limiter
\* admitted it, and 429 when the limiter rejected it
C5_UnauthenticatedNeverForwarded ==
    GwUnauthenticated(greq) =>
        /\ ~greq.fwd.sent
        /\ ~Has(greq.trace, "forwarded") /\ ~Has(greq.trace, "proxyError")
        /\ greq.pc = "done" =>
               /\ Has(greq.trace, "admitted") => greq.status = 401
               /\ Has(greq.trace, "limited") => greq.status = 429

\* an admitted request to a protected prefix with a forged token got its 401
C5_Witness ==
    /\ greq.pc = "done" /\ GwUnauthenticated(greq)
    /\ greq.auth.token.present
    /\ Has(greq.trace, "badToken") /\ greq.status = 401

GwAuthLabels == {"noToken", "badToken", "authenticated"}

GwForwardLabels == {"forwarded", "proxyError", "decoratorError"}

\* the requests the limiter has counted for the IP of r before r arrived
\* (the gateway model handles one request at a time, and r itself is counted
\* once the limiter has admitted or rejected it)
GwCountedBefore(r) ==
    lcount[LimiterKey("gateway_global", r.ip)]
        - (IF Has(r.trace, "admitted") \/ Has(r.trace, "limited") THEN 1 ELSE 0)

\* C6: the per-IP limiter is the first stage to decide on every request,
\* ahead of authentication and forwarding; a request that finds its IP's
\* budget exhausted is answered 429 (500 when the limiter's store fails) and
\* is neither authenticated nor forwarded
C6_LimiterFirst ==
    LET t == greq.trace
    IN  /\ t # <<>> => t[1] \in {"admitted", "limited", "storeError"}
        /\ (\E l \in GwAuthLabels \cup GwForwardLabels : Has(t, l))
               => t[1] = "admitted"
        /\ greq.hits > LimiterCfg["gateway_global"].points =>
               /\ t = <<"limited">>
               /\ greq.pc = "done" /\ greq.status = 429
               /\ ~greq.verified /\ ~greq.fwd.sent
        /\ (/\ greq.pc = "done"
            /\ GwCountedBefore(greq) >= LimiterCfg["gateway_global"].points
            /\ ~Has(t, "storeError")) =>
               /\ greq.status = 429
               /\ ~greq.verified /\ ~greq.fwd.sent

\* C7: every request forwarded to the post, media or search upstream carries
\* an x-user-id header equal to the userId of the token verified for that
\* request, whatever x-user-id the client sent
C7_UserIdFromVerifiedToken ==
    (greq.fwd.sent /\ GwProtected(greq.fwd.upstream)) =>
        /\ GwTokenVerifies(greq)
        /\ greq.fwd.xUserId = greq.auth.token.userId

\* a request forwarded for u1 although the client sent x-user-id: u2
C7_Witness ==
    /\ greq.fwd.sent /\ GwProtected(greq.fwd.upstream)
    /\ greq.auth.token.userId = "u1" /\ greq.xUserId = "u2"

\* C17: when the upstream cannot be reached, the gateway answers 500 with
\* its generic message, and in production mode no field of the response body
\* carries the text of the network error
C17_ProxyFailureHidesErrorText ==
    (greq.pc = "done" /\ Has(greq.trace, "proxyError")) =>
        /\ greq.status = 500
        /\ greq.body.message = "Internal server error"
        /\ genv = "production" =>
               /\ greq.body.message \notin GwErrorTexts
               /\ greq.body.error \notin GwErrorTexts

\* the steps at which the gateway writes an error response of its own
GwOwnErrorLabels == {"noToken", "badToken", "limited", "proxyError",
                     "decoratorError", "storeError", "parseError"}

GwOwnErrorResponse(r) ==
    /\ r.pc = "done" /\ r.status \in {400, 401, 429, 500}
    /\ \E l \in GwOwnErrorLabels : Has(r.trace, l)

\* C18: every error response the gateway produces itself (401 from
\* authentication, 429 from admission, 500 from a proxy failure, 400 or 500
\* from the central error handler) has a body with success = false and a
\* message
C18_ErrorBodyShape ==
    GwOwnErrorResponse(greq) =>
        greq.body.success = "false" /\ greq.body.message # ""

\* the upstream configured for each service segment
GwServiceUpstream == [auth |-> "identity", posts |-> "post", media |-> "media",
                      search |-> "search"]

\* a URL of the form /v1/<s>/<rest> with s one of the four services, as the
\* prefixes are written
GwIsServiceUrl(url) ==
    Len(url) >= 2 /\ url[1] = "v1" /\ url[2] \in DOMAIN GwServiceUpstream

\* the gateway answered r itself before the proxy: a preflight answer of
\* cors(), or an error response of its own
GwAnsweredItself(r) ==
    GwOwnErrorResponse(r) \/ (r.pc = "done" /\ Has(r.trace, "preflight"))

\* C19: a request for /v1/<s>/<rest>, s one of auth, posts, media, search,
\* is forwarded only to the upstream of s, with the leading /v1 replaced by
\* /api and the rest of the path and the query string as sent, and it is
\* forwarded unless the gateway answered it itself; a request whose path
\* matches none of these prefixes gets 404 and is forwarded to no upstream
C19_PrefixRouting ==
    /\ greq.fwd.sent =>
          /\ GwIsServiceUrl(greq.url)
          /\ greq.fwd.upstream = GwServiceUpstream[greq.url[2]]
          /\ greq.fwd.path = <<"api">> \o Tail(greq.url)
    /\ (greq.pc = "done" /\ GwIsServiceUrl(greq.url)) =>
          greq.fwd.sent \/ GwAnsweredItself(greq)
    /\ (greq.pc = "done" /\ ~GwIsServiceUrl(greq.url)) =>
          greq.status = 404 /\ ~greq.fwd.sent

\* the part of C19 about the forwarded requests alone: whatever the gateway
\* forwards goes to the upstream its path names, under /api
C19_ForwardedUnderApi ==
    greq.fwd.sent =>
        /\ greq.fwd.upstream = GwUpstreamOf(greq.url)
        /\ greq.fwd.path = <<"api">> \o Tail(greq.url)

\* C27: every authenticated request to /v1/media is forwarded to the media
\* upstream while it is reachable, also when the request has no Content-Type
\* header: a multipart/form-data content type is passed on unchanged, any
\* other or absent content type is replaced by application/json
C27_MediaForwardedWhateverContentType ==
    (/\ greq.pc = "done" /\ greq.verified
     /\ GwUpstreamOf(greq.url) = "media"
     /\ ~Has(greq.trace, "proxyError")) =>
        /\ greq.fwd.sent /\ greq.fwd.upstream = "media"
        /\ greq.fwd.contentType = IF IsMultipart(greq.contentType)
                                  THEN greq.contentType
                                  ELSE "application/json"

----------------------------------------------------------------------------
(* Properties of the media service's consumer *)

MediaHandlerFinished == mwork.pc \in {"returned", "settled"}

\* C8: when the blob deletion or the record deletion fails for one media id,
\* every other id of mediaIds that has a metadata record is still processed
C8_FailureDoesNotAbortRemaining ==
    (MediaHandlerFinished /\ mwork.failed /\ mwork.failedId # 0)
        => RangeOf(mwork.todo) \subseteq mwork.attempted

\* C9: when the handling of a delivered event failed (the lookup, a blob
\* deletion or a record deletion), the message is not acknowledged and stays
\* with the broker for another delivery
C9_FailedHandlingNotAcked ==
    (mwork.pc = "settled" /\ mwork.failed)
        => ~mwork.acked /\ mqueue # <<>>

\* every record leaving the metadata store is the one the loop stands at, in
\* its findByIdAndDelete step, with its blob already gone
RecordDeletionStep ==
    \A id \in mrecords \ mrecords' :
        /\ mwork.pc = "deleteRecord" /\ id = mwork.todo[mwork.i]
        /\ id \in mwork.attempted
        /\ id \notin mblobs

\* the statement of C30 as written: in every state, a media id whose blob
\* exists has its metadata record
C30_BlobHasRecord == mblobs \subseteq mrecords

\* C30: in the media cleanup worker the metadata record of a media id is
\* deleted only after the deletion of its blob has succeeded: a blob that
\* exists without a metadata record is never one the worker left behind, it
\* belongs to an upload whose record is not saved
C30_RecordOutlivesBlob ==
    /\ [](mblobs \ mrecords \subseteq mup.unsaved)
    /\ [][RecordDeletionStep]_vars

\* one media lost its blob and then its record, and the next one, whose blob
\* deletion failed, still has both, while an upload answered 500 has left
\* its blob without a record
C30_Witness ==
    /\ \E id \in MediaIds :
         id \in mwork.attempted /\ id \notin mblobs /\ id \notin mrecords
    /\ mwork.failed /\ mwork.failedId \in mblobs \cap mrecords
    /\ mup.pc = "done" /\ mup.status = 500 /\ mup.id \in mblobs \ mrecords

\* the handler runs on a message it has handled before without a failure
HandlingAgain == mwork.deliveries >= 2 /\ mwork.handledBefore

\* a step of the second handling: both stores stay as the first handling left
\* them and no blob deletion is attempted
SecondHandlingStep ==
    (HandlingAgain /\ mwork'.deliveries = mwork.deliveries /\ mwork' # mwork) =>
        /\ mrecords' = mrecords /\ mblobs' = mblobs
        /\ mwork'.attempted = {}

\* every blob deletion that is attempted is for an id that has its record
BlobDeletionStep ==
    \A id \in mwork'.attempted \ mwork.attempted : id \in mrecords

\* C31: handlePostDeleted is idempotent: handling the same event a second
\* time leaves the metadata store and the blob store as the first successful
\* handling left them, and no blob deletion is attempted for an id whose
\* metadata record is already gone
C31_MediaHandlerIdempotent ==
    /\ [][SecondHandlingStep]_vars
    /\ [][BlobDeletionStep]_vars
    /\ [](HandlingAgain =>
            /\ RangeOf(mwork.event.mediaIds) \cap mrecords = {}
            /\ RangeOf(mwork.event.mediaIds) \cap mblobs = {})

\* the first handling deleted two media with their blobs, and the second
\* handling of the same message has returned
C31_Witness ==
    /\ HandlingAgain /\ mwork.pc = "settled" /\ ~mwork.failed
    /\ Len(mwork.event.mediaIds) = 2
    /\ mrecords = {} /\ mblobs = {}

----------------------------------------------------------------------------
(* Properties of the search service's consumers *)

EventsOf(p) == LET About(e) == e.postId = p IN SelectSeq(sorder, About)

DocAt(idx, p) == IF p \in DOMAIN idx THEN {idx[p]} ELSE {}

\* C10: once one post.created and one post.deleted event for a postId have
\* been processed, the index holds for that postId what it would hold had
\* the two events been processed in the other order
C10_HandlersCommute ==
    \A p \in SearchPostIds :
        LET evs == EventsOf(p)
        IN  (Len(evs) = 2 /\ evs[1].type # evs[2].type) =>
                DocAt(sindex, p) = DocAt(ApplyAll(sinit, <<evs[2], evs[1]>>), p)

\* the index after the first k handler runs
IndexAfter(k) == ApplyAll(sinit, SubSeq(sorder, 1, k))

\* the last two handler runs were given the same event of this type
HandledTwiceInARow(type) ==
    /\ Len(sorder) >= 2
    /\ sorder[Len(sorder)].type = type
    /\ sorder[Len(sorder) - 1] = sorder[Len(sorder)]

\* C11: running the post.deleted handler a second time with the same payload
\* leaves the index as the first run left it, with no document for the
\* postId, and the second run ends without error
C11_DeleteIdempotent ==
    HandledTwiceInARow("post.deleted") =>
        LET n == Len(sorder)
        IN  /\ soutcome[n] = "ok"
            /\ sorder[n].postId \notin DOMAIN sindex
            /\ sindex = IndexAfter(n - 1)

\* the document of an indexed post was deleted by the first run, and the
\* same event was handled again
C11_Witness ==
    /\ HandledTwiceInARow("post.deleted")
    /\ Len(sorder) = 2
    /\ sorder[1].postId \in DOMAIN sinit
    /\ DOMAIN sindex # {}

\* the last handler run was given a post.created event handled before
CreatedAgain ==
    /\ Len(sorder) >= 2
    /\ sorder[Len(sorder)].type = "post.created"
    /\ \E m \in 1..(Len(sorder) - 1) : sorder[m] = sorder[Len(sorder)]

\* C12: a post.created event handled a second time for the same postId
\* leaves exactly one document for that postId, holding the payload, and the
\* second run ends without error
C12_CreateTwiceIsUpsert ==
    CreatedAgain =>
        LET n == Len(sorder)
            p == sorder[n].postId
        IN  /\ soutcome[n] = "ok"
            /\ p \in DOMAIN sindex
            /\ sindex[p] = <<Doc(sorder[n])>>

\* a post.created event for a post not indexed before was handled twice
C12_Witness ==
    /\ CreatedAgain
    /\ sorder[Len(sorder)].postId \notin DOMAIN sinit
    /\ sorder[Len(sorder)].content = "world"

\* C14: the result of a search issued after an event was handled is computed
\* from an index state that includes that event, also when the same query
\* was answered and cached before
C14_QueryReflectsProcessedEvents ==
    (sq.pc = "done" /\ sq.status = 200) =>
        \E k \in sq.startHandled..Len(sorder) :
            sq.result = SearchFind(IndexAfter(k), sq.query)

\* neither a record nor a blob is left for any of the ids
MediaGone(ids) == RangeOf(ids) \cap (mrecords \cup mblobs) = {}

\* C13: once post.deleted for a deleted post is with the broker, and the
\* blob and record deletions fail only finitely often, every media id the
\* post referenced is eventually gone from the media store
C13_MediaEventuallyRemoved ==
    \A ids \in MediaIdLists :
        (mqueue # <<>> /\ Head(mqueue).mediaIds = ids) ~> MediaGone(ids)

----------------------------------------------------------------------------
(* Properties of the cache entries' expiry *)

\* every entry in the cache has an expiry time that lies ahead, at most the
\* handler's expiry after its write
EntriesExpire ==
    \A k \in DOMAIN xcache :
        /\ clock < xcache[k].exp
        /\ \E op \in CachedReads :
             k = SetexKey(op) /\ xcache[k].exp = xcache[k].writtenAt + CacheTtl[op]

\* r has been answered from the cache with a result computed before a
\* mutation that its store had seen by then
ServedStale(r) ==
    /\ xread[r].pc = "done" /\ xread[r].fromCache
    /\ LET changes == xstore[StoreOf(xread[r].op)]
       IN  /\ xread[r].servedVer < Len(changes)
           /\ changes[xread[r].servedVer + 1] <= xread[r].servedAt

\* no read is served from an entry past its expiry: an answer from the cache
\* comes less than the handler's expiry after the write of its entry
ServedBeforeExpiry ==
    \A r \in Readers :
        (xread[r].pc = "done" /\ xread[r].fromCache) =>
            xread[r].servedAt - xread[r].writtenAt < CacheTtl[xread[r].op]

\* a listing computed before a mutation of the post store is served for at
\* most its expiry (300 s) after that mutation
StaleAtMostExpiryAfterMutation ==
    \A r \in Readers :
        (ServedStale(r) /\ xread[r].op = "getAllPosts") =>
            xread[r].servedAt - xstore[StoreOf(xread[r].op)][xread[r].servedVer + 1]
                <= CacheTtl[xread[r].op]

\* C24: every cache entry written by the post service and the search service
\* has a finite expiry and no read is served from an entry past its expiry;
\* hence a listing computed before a mutation of the post store is served
\* for at most its expiry (300 s) after that mutation
C24_StaleAtMostExpiryAfterMutation ==
    EntriesExpire /\ ServedBeforeExpiry /\ StaleAtMostExpiryAfterMutation

\* the expiry of the entries alone, counted from their write
CacheExpiryFromWrite == EntriesExpire /\ ServedBeforeExpiry

----------------------------------------------------------------------------
(* Properties of the post service's middleware chain *)

ChainControllers == {"createPost", "getAllPosts", "getPost", "deletePost"}

\* the controller that ran for the request, if any
ChainRan(t) == \E h \in ChainControllers : Has(t, h)

\* C25: every request under /api/posts is counted against the read limiter,
\* and every POST and DELETE against the write limiter, before its controller
\* runs; a write request rejected by the write limiter gets 429 and reaches
\* neither createPost nor deletePost
C25_LimitersBeforeControllers ==
    LET t == preq.trace
    IN  /\ ChainRan(t) => Has(t, "readLimiter")
        /\ (ChainRan(t) /\ IsWriteMethod(preq.method)) => Has(t, "writeLimiter")
        /\ (Has(t, "writeLimiter") /\ preq.pc = "done" /\ preq.status = 429)
               => ~ChainRan(t)

----------------------------------------------------------------------------
(* Properties of the services' start *)

\* the broker connection is there and every subscription of s is registered
BootReady(s) == boot[s].connected /\ boot[s].subs = Subscriptions[s]

\* C32: the search service and the media service accept HTTP requests only
\* after the broker connection is established and all their subscriptions
\* are registered; when connecting or subscribing fails the process exits
\* with status 1 and never listens
C32_ListenOnlyAfterSubscribed ==
    /\ [](\A s \in BootServices :
            /\ (boot[s].listening \/ boot[s].accepted > 0) => BootReady(s)
            /\ boot[s].failed => ~boot[s].listening /\ boot[s].accepted = 0
            /\ boot[s].pc = "exited" => boot[s].failed /\ boot[s].exitCode = 1)
    /\ \A s \in BootServices :
         boot[s].failed ~> (boot[s].pc = "exited" /\ boot[s].exitCode = 1)

\* the search service accepted a request with both subscriptions registered,
\* and the media service, whose subscription failed, has exited with status 1
\* after refusing a connection
C32_Witness ==
    /\ boot["search"].accepted > 0 /\ Len(boot["search"].subs) = 2
    /\ boot["media"].pc = "exited" /\ boot["media"].connected
    /\ boot["media"].refused > 0

----------------------------------------------------------------------------
(* Properties of the identity service *)

IdRefreshDone(s) == icall[s].pc = "done" /\ icall[s].op = "refresh"

\* C15: a refresh call made with token T after a refresh with T has
\* succeeded is never accepted, and is answered 401 unless the store itself
\* fails; a call with the token a successful refresh issued, made before
\* that token is presented elsewhere or expires, is accepted
C15_RefreshTokenSingleUse ==
    \A s \in IdSlots :
        IdRefreshDone(s) =>
            /\ icall[s].afterUse =>
                   /\ icall[s].status # 200
                   /\ ~icall[s].failed => icall[s].status = 401
            /\ ( /\ icall[s].token \in ihist.issued
                 /\ ihist.presents[icall[s].token] = 1
                 /\ icall[s].token \notin iexpired
                 /\ ~icall[s].failed ) => icall[s].status = 200

\* the token of a succeeded refresh was presented again and refused, and the
\* token that refresh issued was accepted
C15_Witness ==
    \E s1 \in IdSlots, s2 \in IdSlots :
        /\ IdRefreshDone(s1) /\ icall[s1].afterUse /\ icall[s1].status = 401
        /\ IdRefreshDone(s2) /\ icall[s2].token \in ihist.issued
        /\ icall[s2].status = 200

\* a refreshTokenUser call that presented token t and was answered 200
RefreshedWith(s, t) ==
    /\ icall[s].op = "refresh" /\ icall[s].pc = "done"
    /\ icall[s].token = t /\ icall[s].status = 200

\* C33: under any interleaving of concurrent refreshTokenUser calls that
\* present the same refresh token, at most one of them succeeds, so at most
\* one new refresh token is issued in exchange for it
C33_OneRefreshPerToken ==
    \A t \in TokenIds :
        /\ Cardinality({s \in IdSlots : RefreshedWith(s, t)}) <= 1
        /\ Cardinality({icall[s].newToken : s \in {x \in IdSlots : RefreshedWith(x, t)}}) <= 1

\* a refreshTokenUser call made after a logoutUser with its token had
\* returned success
RefreshAfterLogout(s) == icall[s].op = "refresh" /\ icall[s].afterLogout

\* the step in which a logoutUser call gets the result of its deleteOne
LogoutStep ==
    \A s \in IdSlots :
        (icall[s].pc = "logoutDelete" /\ icall'[s].pc = "done"
                                      /\ ~icall'[s].failed) =>
            /\ icall'[s].status = 200
            /\ itokens' = itokens \ StoredTokens(icall[s].token)
            /\ StoredTokens(icall[s].token) = {} => itokens' = itokens

\* C34: after logoutUser with a refresh token has returned success, every
\* refreshTokenUser call with that token fails with 401 (500 when the store
\* itself fails) and issues nothing; logoutUser with a token that is not
\* stored also returns success and leaves the stored tokens unchanged
C34_LogoutRevokesToken ==
    /\ [](\A s \in IdSlots :
            RefreshAfterLogout(s) =>
                /\ icall[s].newToken = 0 /\ icall[s].status # 200
                /\ (icall[s].pc = "done" /\ ~icall[s].failed) =>
                       icall[s].status = 401)
    /\ [][LogoutStep]_vars

\* a refresh with a logged-out token was answered 401, and a logout with a
\* token that was never stored was answered 200
C34_Witness ==
    \E s1 \in IdSlots, s2 \in IdSlots :
        /\ RefreshAfterLogout(s1) /\ icall[s1].pc = "done" /\ icall[s1].status = 401
        /\ icall[s1].token \in TokenIds
        /\ icall[s2].op = "logout" /\ icall[s2].pc = "done" /\ icall[s2].status = 200
        /\ icall[s2].token = BogusToken

\* a registerUser call made for an email or a username that a stored user
\* already had
RegisteredExisting(s) == icall[s].op = "register" /\ icall[s].existed

\* C35: no two user records share an email and no two share a username,
\* under any interleaving of concurrent registerUser calls; a registration
\* for an existing email or username is answered 400 (500 when the store
\* itself fails) and creates neither a user nor a refresh token
C35_UniqueEmailAndUsername ==
    /\ \A u \in iusers, v \in iusers :
         (u.email = v.email \/ u.username = v.username) => u = v
    /\ \A s \in IdSlots :
         RegisteredExisting(s) =>
             /\ icall[s].newToken = 0
             /\ icall[s].pc \notin {"regHash", "regSave", "regGenerate"}
             /\ (icall[s].pc = "done" /\ ~icall[s].failed) => icall[s].status = 400

----------------------------------------------------------------------------
(* Properties of the services' limiter middlewares *)

\* C36: a limiter middleware answers 429 only when the identity's budget for
\* the window is exhausted; a failure of the rate-limit store during consume
\* is not reported as a rate-limit rejection
C36_TooManyRequestsOnlyWhenExhausted ==
    wreq.status = 429 =>
        /\ wreq.outcome = "exhausted"
        /\ wreq.hits > LimiterCfg[wreq.limiter].points

====
